---------------------------- MODULE Spec2Model ----------------------------
(***************************************************************************)
(* A model of the Go client library for the agent CLI: the subprocess      *)
(* transport (stdout framer, stdin writer, exit waiter, close), the        *)
(* protocol handler (pending-request table, inbound classification), the   *)
(* session client (session-id cell, public operations, close) and the      *)
(* error classifier.                                                       *)
(*                                                                         *)
(* The state is one record per component.  Each specification runs the     *)
(* same program actions against a different environment:                   *)
(*   SpecFramer   the transport alone, the child printing arbitrary lines  *)
(*   SpecSession  a client connecting, messages carrying session ids       *)
(*   SpecCtl      control requests from two goroutines, any answers        *)
(*   SpecTimeout  control requests that get no answer                      *)
(*   SpecLife     connect, use and close, in any order                     *)
(*   SpecWrite    every writer of the child's stdin at once                *)
(*   SpecOrder    messages and control responses mixed on the wire         *)
(*   SpecInbound  the child's control requests, served by callbacks        *)
(*   SpecHooks    Send with UserPromptSubmit hooks registered              *)
(*   SpecPermission  the permission manager on its own                     *)
(*   SpecRace     a bare transport written to while it is closed           *)
(*   SpecTeardown control requests pending while the client is torn down   *)
(*   SpecQuery    the one-shot Query reading a child's output              *)
(*   SpecRetry    WithRetry around a function that fails in any way        *)
(*   SpecMcp      the MCP client: handshake, requests, any server          *)
(*   SpecMatch    the hooks manager on its own, entries with matchers      *)
(*   SpecExit     a bare transport whose child exits while it is read      *)
(*   SpecConnect  Connect against its own receive loop                     *)
(*   SpecClose    Close while the receive loop forwards messages           *)
(*   SpecNested   client calls made from inside an inbound callback        *)
(*   SpecReconnect  Connect called again on the same client                *)
(* SpecTeardownLive, SpecRetryLive, SpecExitLive, SpecConnectLive,         *)
(* SpecNestedLive and SpecMcpLive add weak fairness of the library's own   *)
(* goroutines to the specification they are named after.                   *)
(***************************************************************************)
EXTENDS Integers, Sequences, FiniteSets, TLC

(***************************************************************************)
(* Bounds of the model.                                                    *)
(***************************************************************************)
\* number of JSON objects the child starts to emit
MaxObjs == 3
\* largest number of stdout lines one JSON object is split across
MaxParts == 3
\* number of non-JSON lines and of whitespace-only lines the child prints
MaxJunk == 1
\* config.MaxBufferSize, in units of one short line (the default is 10 MiB)
MaxBufferSize == 1
\* lines the stdout pipe holds before the child blocks writing
PipeCap == 2
\* capacity of the transport's raw message channel (100 in the code)
RawCap == 2
\* capacity of the transport's error channel (10 in the code)
ErrCap == 2

\* number of distinct session ids the child mentions
MaxSid == 2
\* largest number of hook callbacks or hook entries registered for one event
MaxHooks == 3
\* largest request id the child puts in a control response
MaxRid == 3
\* capacity of the handler's application message channel (100 in the code)
AppCap == 1
\* number of public operations each application goroutine calls
MaxCalls == 2
\* number of rules added to a permission manager
MaxRules == 2
\* largest MaxRetries of a retry configuration the caller passes
MaxMaxRetries == 2
\* the RetryAfter of a retryable error that has one, in quarters of a second
MaxRetryAfter == 5
\* largest integer an MCP server puts in the id of a message
MaxMcpId == 3
\* number of messages an MCP server sends
MaxMcpInbound == 2
\* capacity of the MCP client's event queue (100 in the code)
McpQueueCap == 1

VARIABLES
    proc,    \* the child process
    trans,   \* the SubprocessTransport
    hand,    \* the ProtocolHandler
    cli,     \* the Client
    recv,    \* the Client's receiveLoop goroutine
    thr,     \* the application's goroutines, each calling public operations
    hist,    \* history: what has been emitted, scanned, returned
    lib      \* the packages used on their own: the permission manager

vars == <<proc, trans, hand, cli, recv, thr, hist, lib>>
clientVars == <<hand, cli, recv, thr>>

\* the application's goroutines
Apps == {"g1", "g2"}

(***************************************************************************)
(* Lines of the child's stdout.  A line is a part of a JSON object (part i *)
(* of n of the object at wire position obj), a whitespace-only line, or a  *)
(* line that is not JSON.  self marks an inner line that is a complete     *)
(* JSON object by itself (a nested object printed on its own line).        *)
(***************************************************************************)
PartLine(o, i, n, s) == [k |-> "part", obj |-> o, i |-> i, n |-> n, self |-> s]
BlankLine == [k |-> "blank", obj |-> 0, i |-> 0, n |-> 0, self |-> FALSE]
JunkLine == [k |-> "junk", obj |-> 0, i |-> 0, n |-> 0, self |-> FALSE]

\* a message that carries no request id and no session id
PlainMsg(type) == [type |-> type, rid |-> 0, sub |-> "", sid |-> 0]

\* no message: the zero value of a reply slot or of a result
NoMsg == PlainMsg("")

\* strings.TrimSpace(scanner.Text()) == "": the line is skipped
IsBlank(line) == line.k = "blank"

\* the accumulated lines are all the lines of one object, in order
WholeObject(buf) ==
    /\ Len(buf) >= 1
    /\ buf[1].k = "part"
    /\ Len(buf) = buf[1].n
    /\ \A j \in 1..Len(buf) :
          /\ buf[j].k = "part"
          /\ buf[j].obj = buf[1].obj
          /\ buf[j].i = j

\* json.Unmarshal([]byte(raw), &data) == nil: the accumulated text is one
\* complete JSON object
Parses(buf) ==
    \/ WholeObject(buf)
    \/ Len(buf) = 1 /\ buf[1].k = "part" /\ buf[1].self

(***************************************************************************)
(* The child.                                                              *)
(***************************************************************************)
ChildCanWrite ==
    /\ proc.state = "running"
    /\ Len(proc.stdout) < PipeCap

\* the child starts a new object of n lines and writes its first line
ChildWriteFirst(n, msg) ==
    proc' = [proc EXCEPT
                !.wire = Append(@, [n |-> n, msg |-> msg]),
                !.stdout = Append(@, PartLine(Len(proc.wire) + 1, 1, n, FALSE)),
                !.part = IF n = 1 THEN 0 ELSE 1]

\* the child starts an object that it splits across 1..MaxParts lines
ChildStartObject ==
    /\ ChildCanWrite
    /\ proc.part = 0
    /\ Len(proc.wire) < MaxObjs
    /\ \E n \in 1..MaxParts : ChildWriteFirst(n, PlainMsg("assistant"))
    /\ UNCHANGED <<trans, hist, clientVars>>

\* the child writes the next line of the object it is in the middle of
ChildNextPart ==
    /\ ChildCanWrite
    /\ proc.part > 0
    /\ LET o == Len(proc.wire)
           n == proc.wire[o].n
           i == proc.part + 1
       IN \E s \in BOOLEAN :
             /\ s => (1 < i /\ i < n)
             /\ proc' = [proc EXCEPT
                            !.stdout = Append(@, PartLine(o, i, n, s)),
                            !.part = IF i = n THEN 0 ELSE i]
    /\ UNCHANGED <<trans, hist, clientVars>>

\* the child prints a whitespace-only line
ChildBlankLine ==
    /\ ChildCanWrite
    /\ proc.blank < MaxJunk
    /\ proc' = [proc EXCEPT !.stdout = Append(@, BlankLine), !.blank = @ + 1]
    /\ UNCHANGED <<trans, hist, clientVars>>

\* the child prints a line that is not JSON (a banner, a debug trace),
\* between two objects
ChildJunkLine ==
    /\ ChildCanWrite
    /\ proc.part = 0
    /\ proc.junk < MaxJunk
    /\ proc' = [proc EXCEPT !.stdout = Append(@, JunkLine), !.junk = @ + 1]
    /\ UNCHANGED <<trans, hist, clientVars>>

\* the child exits: its stdout reaches end of file once drained
ChildExit ==
    /\ proc.state = "running"
    /\ proc' = [proc EXCEPT !.state = "exited"]
    /\ UNCHANGED <<trans, hist, clientVars>>

(***************************************************************************)
(* SubprocessTransport.readLoop                                            *)
(***************************************************************************)
\* readLoop's next position after appending the scanned line: emit the raw
\* message, report the overflow, or wait for the next line
AfterAppend(buf) ==
    IF Parses(buf) THEN "sendMsg"
    ELSE IF Len(buf) > MaxBufferSize THEN "sendErr"
    ELSE "scan"

\* scanner.Scan() returns a line: one iteration of the scan loop up to the
\* channel send
ReadLoopScan ==
    /\ trans.readLoop = "scan"
    /\ proc.stdout # <<>>
    /\ proc' = [proc EXCEPT !.stdout = Tail(@)]
    /\ LET line == Head(proc.stdout)
           buf == Append(trans.jsonBuffer, line)
       IN /\ UNCHANGED clientVars
          /\ IF trans.closed
             THEN \* case <-t.closeChan: return, and the deferred close(t.msgChan)
                  /\ trans' = [trans EXCEPT !.readLoop = "done",
                                            !.msgChanClosed = TRUE]
                  /\ UNCHANGED hist
             ELSE IF IsBlank(line)
             THEN /\ hist' = [hist EXCEPT !.scanned = Append(@, line)]
                  /\ UNCHANGED trans
             ELSE /\ trans' = [trans EXCEPT !.jsonBuffer = buf,
                                            !.readLoop = AfterAppend(buf)]
                  /\ hist' = [hist EXCEPT !.scanned = Append(@, line)]

\* t.msgChan <- RawMessage{...}; jsonBuffer.Reset()   (blocks while full)
ReadLoopEmit ==
    /\ trans.readLoop = "sendMsg"
    /\ Len(trans.msgChan) < RawCap
    /\ trans' = [trans EXCEPT !.msgChan = Append(@, trans.jsonBuffer),
                              !.jsonBuffer = <<>>,
                              !.readLoop = "scan"]
    /\ hist' = [hist EXCEPT !.rawLog = Append(@, trans.jsonBuffer)]
    /\ UNCHANGED <<proc, clientVars>>

\* ch <- item by the framer: a send on a closed channel panics (the
\* deferred close(t.msgChan) runs while the goroutine unwinds), a send on a
\* full one blocks
CanSendErr(tr) == tr.errChanClosed \/ Len(tr.errChan) < ErrCap

\* t.errChan <- "JSON buffer overflow"; jsonBuffer.Reset()   (blocks while full)
ReadLoopOverflow ==
    /\ trans.readLoop = "sendErr"
    /\ CanSendErr(trans)
    /\ IF trans.errChanClosed
       THEN /\ trans' = [trans EXCEPT !.readLoop = "panic",
                                      !.msgChanClosed = TRUE]
            /\ UNCHANGED hist
       ELSE /\ trans' = [trans EXCEPT !.errChan = Append(@, "overflow"),
                                      !.jsonBuffer = <<>>,
                                      !.readLoop = "scan"]
            /\ hist' = [hist EXCEPT !.overflowAt = Append(@, Len(hist.scanned))]
    /\ UNCHANGED <<proc, clientVars>>

\* scanner.Scan() returns false with scanner.Err() != nil: cmd.Wait() has
\* returned and closed the parent's end of the stdout pipe, so the read
\* fails with "file already closed"; what the child had written and the
\* scanner had not read yet is lost
ReadLoopReadFails ==
    /\ trans.readLoop = "scan"
    /\ trans.wait \notin {"off", "wait"}
    /\ trans' = [trans EXCEPT !.readLoop = "sendReadErr"]
    /\ proc' = [proc EXCEPT !.stdout = <<>>]
    /\ UNCHANGED <<hist, clientVars>>

\* t.errChan <- "stdout read: ..." (blocks while full), then the deferred
\* close(t.msgChan)
ReadLoopReport ==
    /\ trans.readLoop = "sendReadErr"
    /\ CanSendErr(trans)
    /\ IF trans.errChanClosed
       THEN trans' = [trans EXCEPT !.readLoop = "panic",
                                   !.msgChanClosed = TRUE]
       ELSE trans' = [trans EXCEPT !.errChan = Append(@, "stdout read"),
                                   !.readLoop = "done",
                                   !.msgChanClosed = TRUE]
    /\ UNCHANGED <<proc, hist, clientVars>>

\* scanner.Scan() returns false at end of file; deferred close(t.msgChan)
ReadLoopEOF ==
    /\ trans.readLoop = "scan"
    /\ proc.stdout = <<>>
    /\ proc.state = "exited"
    /\ trans' = [trans EXCEPT !.readLoop = "done", !.msgChanClosed = TRUE]
    /\ UNCHANGED <<proc, hist, clientVars>>

(***************************************************************************)
(* SubprocessTransport.Close called by the owner of a bare transport.      *)
(***************************************************************************)
\* a Close without the t.closed test
TransportCloseUnguarded(tr) ==
    [tr EXCEPT !.closed = TRUE, !.closeChanCloses = @ + 1, !.stdinClosed = TRUE]

\* the body of Close once t.mu is held: idempotent through t.closed
TransportCloseBody(tr) ==
    IF tr.closed
    THEN tr
    ELSE [tr EXCEPT !.closed = TRUE,
                    !.closeChanCloses = @ + 1,
                    !.stdinClosed = TRUE]

\* if t.cmd != nil && t.cmd.Process != nil { t.cmd.Process.Kill() }
Killed(p) == IF p.state = "running" THEN [p EXCEPT !.state = "exited"] ELSE p

TransportClose ==
    /\ hist.tcloses < MaxCalls
    /\ trans.muR = {}
    /\ trans' = TransportCloseBody(trans)
    /\ proc' = Killed(proc)
    /\ hist' = [hist EXCEPT !.tcloses = @ + 1]
    /\ UNCHANGED clientVars

(***************************************************************************)
(* The consumers of a bare transport's channels.                           *)
(***************************************************************************)
\* <-t.Messages()
TakeRaw ==
    /\ trans.msgChan # <<>>
    /\ trans' = [trans EXCEPT !.msgChan = Tail(@)]
    /\ UNCHANGED <<proc, hist, clientVars>>

\* <-t.Errors()
TakeErr ==
    /\ trans.errChan # <<>>
    /\ trans' = [trans EXCEPT !.errChan = Tail(@)]
    /\ UNCHANGED <<proc, hist, clientVars>>

(***************************************************************************)
(* Errors.  An error value is its chain of wrapped errors, outermost       *)
(* first; nil is the empty chain.                                          *)
(***************************************************************************)
\* a package-level sentinel made by errors.New
Sentinel(name) ==
    [t |-> "sentinel", name |-> name, retryable |-> FALSE, retryAfter |-> 0]
\* fmt.Errorf("text: %w", inner), or fmt.Errorf("text") at the end of a chain
Errorf(text) ==
    [t |-> "fmt", name |-> text, retryable |-> FALSE, retryAfter |-> 0]
\* &SDKError{Op: op, Err: inner}: Retryable and RetryAfter keep their zero
\* values
SDKError(op) ==
    [t |-> "SDKError", name |-> op, retryable |-> FALSE, retryAfter |-> 0]
\* NewRetryableError(op, inner, retryAfter)
NewRetryableError(op, retryAfter) ==
    [t |-> "SDKError", name |-> op, retryable |-> TRUE,
     retryAfter |-> retryAfter]

\* errors.Is(err, target) for a sentinel target
ErrorsIs(err, name) == \E i \in DOMAIN err : err[i] = Sentinel(name)

\* a classifier that finds every error retryable
AlwaysRetryable(err) == TRUE

\* claude.IsRetryable
IsRetryable(err) ==
    LET sdk == {i \in DOMAIN err : err[i].t = "SDKError"}
    IN IF sdk # {}
       THEN err[CHOOSE i \in sdk : \A j \in sdk : i <= j].retryable
       ELSE ErrorsIs(err, "ErrRateLimit") \/ ErrorsIs(err, "ErrControlTimeout")

\* claude.GetRetryAfter
GetRetryAfter(err) ==
    LET sdk == {i \in DOMAIN err : err[i].t = "SDKError"}
    IN IF sdk # {}
       THEN err[CHOOSE i \in sdk : \A j \in sdk : i <= j].retryAfter
       ELSE 0

\* fmt.Errorf("JSON buffer overflow: %d bytes", n) in readLoop
ErrJSONBufferOverflow == <<Errorf("JSON buffer overflow: %d bytes")>>
\* fmt.Errorf("process exited: %w", err) and the other errors of the transport
ErrTransport(text) == <<Errorf(text)>>

\* the error an item of the transport's error channel stands for
ErrorOf(item) ==
    IF item = "overflow" THEN ErrJSONBufferOverflow ELSE ErrTransport(item)

\* Transport.Write on a transport that is not connected
ErrNotConnected == <<Errorf("not connected")>>
\* t.stdin.Write after t.stdin.Close()
ErrStdinClosed == <<Errorf("write |1"), Sentinel("os.ErrClosed")>>
\* a public operation on a client that is closed or was never connected
ErrClientNotConnected == <<Errorf("client is not connected")>>
\* Connect on a closed client
ErrClientClosed == <<Errorf("client is closed")>>
\* SendControlRequestWithTimeout when timeoutCtx is done; cause is timeoutCtx.Err()
TimeoutError(cause) == <<Errorf("control request timeout"), Sentinel(cause)>>
\* SendControlRequestWithTimeout when the transport write fails
WriteError(err) == <<Errorf("write control request")>> \o err

\* Send when the UserPromptSubmit chain returned continue=false
BlockedByHook == <<Errorf("blocked by hook")>>
\* Send when a hook returned an error
HookError == <<Errorf("hook error"), Errorf("callback failed")>>

(***************************************************************************)
(* hooks.Manager: the entries registered for one event, in registration    *)
(* order.  An entry applies unless its matcher rejects the tool name or it *)
(* is a callback entry without a callback.  What an applying entry returns *)
(* when it is called is outs[i]: "continue", "stop" (continue=false) or    *)
(* "error".  A result names the entry whose output it is (from, 0 for the  *)
(* manager's own {continue:true}) and the entries called, in call order,   *)
(* each with what it returned.                                             *)
(***************************************************************************)
HookOutcomes == {"continue", "stop", "error"}

\* the chain was not run
NoTrigger ==
    [ran |-> FALSE, continue |-> TRUE, from |-> 0, err |-> FALSE,
     invoked |-> <<>>]

\* &Output{Continue: true}, made by the manager
ChainContinues(invoked) ==
    [ran |-> TRUE, continue |-> TRUE, from |-> 0, err |-> FALSE,
     invoked |-> invoked]

\* a chain in which no output ends the run
NeverEndsChain(out) == FALSE

\* if !output.Continue
EndsChain(out) == out = "stop"

RECURSIVE TriggerFrom(_, _, _, _)
\* the loop of Manager.Trigger from entry i on
TriggerFrom(entries, outs, i, invoked) ==
    IF i > Len(entries) THEN ChainContinues(invoked)
    ELSE IF ~entries[i].applies THEN TriggerFrom(entries, outs, i + 1, invoked)
    ELSE IF outs[i] = "error"
    THEN [ran |-> TRUE, continue |-> FALSE, from |-> 0, err |-> TRUE,
          invoked |-> Append(invoked, [i |-> i, out |-> outs[i]])]
    ELSE IF EndsChain(outs[i])
    THEN [ran |-> TRUE, continue |-> FALSE, from |-> i, err |-> FALSE,
          invoked |-> Append(invoked, [i |-> i, out |-> outs[i]])]
    ELSE TriggerFrom(entries, outs, i + 1,
                     Append(invoked, [i |-> i, out |-> outs[i]]))

\* Manager.Trigger
Trigger(entries, outs) ==
    IF Len(entries) = 0 THEN ChainContinues(<<>>)
    ELSE TriggerFrom(entries, outs, 1, <<>>)

\* what the entries can return in one run: an entry that does not apply
\* returns nothing
OutsOf(entries) ==
    {outs \in [DOMAIN entries -> HookOutcomes \cup {"none"}] :
        \A i \in DOMAIN entries :
            outs[i] = "none" <=> ~entries[i].applies}

(***************************************************************************)
(* Locks, channels and the session-id cell.                                *)
(***************************************************************************)
\* c.mu.RLock() / c.mu.Lock() can be taken
CanRLock == cli.muW = ""
CanLock == cli.muW = "" /\ cli.muR = {}
\* c.mu released by goroutine x (the deferred RUnlock / Unlock)
Unlocked(c, x) ==
    [c EXCEPT !.muW = IF @ = x THEN "" ELSE @, !.muR = @ \ {x}]

\* an unconditional atomic.Pointer.Store(new), for comparison
StoreAlways(cell, old, new) == new

\* atomic.Pointer.CompareAndSwap(old, new): the cell's value afterwards
CompareAndSwap(cell, old, new) == IF cell = old THEN new ELSE cell

\* goroutine x has returned from its call
ReturnedFrom(t, x, how, err, resp) ==
    [t EXCEPT ![x] = [pc |-> "idle", op |-> @.op, id |-> @.id, how |-> how,
                        err |-> err, resp |-> resp, wcalls |-> <<>>,
                        calls |-> @.calls + 1, late |-> @.late,
                        hook |-> @.hook]]

Returned(x, how, err, resp) == ReturnedFrom(thr, x, how, err, resp)

\* goroutine x enters operation op at position pc; late records whether a
\* Client.Close had returned before the call began
Entered(x, op, pc) ==
    [thr EXCEPT ![x] = [pc |-> pc, op |-> op, id |-> 0, how |-> "",
                        err |-> <<>>, resp |-> NoMsg, wcalls |-> <<>>,
                        calls |-> @.calls, late |-> hist.closeReturned,
                        hook |-> NoTrigger]]

CanCall(x) == thr[x].pc = "idle" /\ thr[x].calls < MaxCalls

(***************************************************************************)
(* SubprocessTransport.Write                                               *)
(***************************************************************************)
\* the payload written by goroutine x: a body and its trailing newline
Body(x, type, id) == [by |-> x, type |-> type, id |-> id, part |-> "body"]
Newline(x, type, id) == [by |-> x, type |-> type, id |-> id, part |-> "nl"]

\* a Write that sends the payload and then the newline by two calls
StdinWritesSplit(x, type, id) ==
    << <<Body(x, type, id)>>, <<Newline(x, type, id)>> >>

\* the t.stdin.Write calls one Transport.Write makes: the newline is
\* appended to data first, and data is written by a single call.  One call
\* on the pipe's os.File is atomic with respect to other calls (the file's
\* write lock is held until all bytes are written).
StdinWrites(x, type, id) == << <<Body(x, type, id), Newline(x, type, id)>> >>

\* a return that leaves the entry in the table
NotDeleted(h, id) == h

\* the deferred delete(h.pendingRequests, id)
Deleted(h, id) == [h EXCEPT !.pendingRequests = {e \in @ : e.id # id}]

\* the epilogue of initialize/Connect, Interrupt and RewindFiles once
\* SendControlRequest has returned (err, resp) to goroutine x
ControlReturns(x, how, err, resp) ==
    LET op == thr[x].op
        opname == IF op = "Connect" THEN "initialize"
                  ELSE IF op = "Interrupt" THEN "interrupt" ELSE "rewind_files"
        failed == IF err # <<>> THEN <<SDKError(opname)>> \o err
                  ELSE IF resp.sub = "error" /\ op = "Connect"
                       THEN <<SDKError(opname), Errorf("initialization failed")>>
                  ELSE IF resp.sub = "error" /\ op = "RewindFiles"
                       THEN <<SDKError(opname), Errorf("rewind failed")>>
                  ELSE <<>>
    IN /\ hand' = Deleted(hand, thr[x].id)
       /\ IF op = "Connect"
          THEN \* Connect keeps c.mu: c.transport.Close() on failure,
               \* extractSessionIDFromResponse on success
               /\ thr' = [thr EXCEPT ![x].pc = IF failed # <<>> THEN "connClose"
                                               ELSE "load",
                                     ![x].how = how, ![x].err = failed,
                                     ![x].resp = resp, ![x].wcalls = <<>>]
               /\ UNCHANGED cli
          ELSE /\ thr' = Returned(x, how, failed, resp)
               /\ cli' = Unlocked(cli, x)

\* Transport.Write has returned err to goroutine x
WriteReturns(x, err) ==
    IF thr[x].op \in {"Send", "SendToolResult", "Write"}
    THEN /\ thr' = Returned(x, "write", err, NoMsg)
         /\ cli' = Unlocked(cli, x)
         /\ UNCHANGED hand
    ELSE IF err = <<>>
    THEN /\ thr' = [thr EXCEPT ![x].pc = "wait", ![x].wcalls = <<>>]
         /\ UNCHANGED <<cli, hand>>
    ELSE ControlReturns(x, "write", WriteError(err), NoMsg)

\* the owner of a bare transport calls Write; late records whether Close had
\* set t.closed before the call began
TransportWrite(x) ==
    /\ CanCall(x)
    /\ thr' = [Entered(x, "Write", "write") EXCEPT
                  ![x].wcalls = StdinWrites(x, "user", 0),
                  ![x].late = trans.closed]
    /\ UNCHANGED <<proc, trans, hand, cli, recv, hist>>

\* t.mu.RLock(); if !t.connected || t.stdin == nil { return "not connected" }
WriteBegin(x) ==
    /\ thr[x].pc = "write"
    /\ IF ~trans.connected
       THEN /\ WriteReturns(x, ErrNotConnected)
            /\ UNCHANGED trans
       ELSE /\ trans' = [trans EXCEPT !.muR = @ \cup {x}]
            /\ thr' = [thr EXCEPT ![x].pc = "stdin"]
            /\ UNCHANGED <<cli, hand>>
    /\ UNCHANGED <<proc, recv, hist>>

\* t.stdin.Write(data), and after the last one the deferred t.mu.RUnlock()
WriteStdin(x) ==
    /\ thr[x].pc = "stdin"
    /\ LET call == Head(thr[x].wcalls)
           rest == Tail(thr[x].wcalls)
       IN IF trans.stdinClosed
          THEN /\ trans' = [trans EXCEPT !.muR = @ \ {x}]
               /\ WriteReturns(x, ErrStdinClosed)
          ELSE IF rest = <<>>
          THEN /\ trans' = [trans EXCEPT !.stdin = @ \o call, !.muR = @ \ {x}]
               /\ WriteReturns(x, <<>>)
          ELSE /\ trans' = [trans EXCEPT !.stdin = @ \o call]
               /\ thr' = [thr EXCEPT ![x].wcalls = rest]
               /\ UNCHANGED <<cli, hand>>
    /\ UNCHANGED <<proc, recv, hist>>

(***************************************************************************)
(* Initial states.                                                         *)
(***************************************************************************)
\* the child right after cmd.Start()
ProcStarted ==
    [wire |-> <<>>, stdout |-> <<>>, part |-> 0, junk |-> 0, blank |-> 0,
     state |-> "running"]

\* the transport right after Connect: connected, the three goroutines started
TransportConnected ==
    [connected |-> TRUE, closed |-> FALSE, closeChanCloses |-> 0,
     stdinClosed |-> FALSE, stdin |-> <<>>, muR |-> {},
     msgChan |-> <<>>, msgChanClosed |-> FALSE, errChan |-> <<>>,
     errChanClosed |-> FALSE, wait |-> "wait", waitErr |-> FALSE,
     jsonBuffer |-> <<>>, readLoop |-> "scan"]

HistEmpty ==
    [rawLog |-> <<>>, scanned |-> <<>>, tcloses |-> 0, handled |-> <<>>,
     forwarded |-> <<>>, closeReturned |-> FALSE, panics |-> 0, sidSeen |-> 0,
     failed |-> {}, overflowAt |-> <<>>,
     orphans |-> [children |-> 0, loops |-> 0]]

\* a goroutine of the application that is not inside a call
Idle == [pc |-> "idle", op |-> "", id |-> 0, how |-> "", err |-> <<>>,
         resp |-> NoMsg, wcalls |-> <<>>, calls |-> 0, late |-> FALSE,
         hook |-> NoTrigger]

\* NewProtocolHandler
NewProtocolHandler ==
    [pendingRequests |-> {}, requestCounter |-> 0,
     msgChan |-> <<>>, closes |-> 0,
     canUseToolCallback |-> FALSE, mcpMessageCallback |-> FALSE,
     hookCallbacks |-> 0]

\* NewClient: no transport, no protocol handler, the session-id cell unset
NewClient ==
    [closed |-> FALSE, closeChanCloses |-> 0, transport |-> FALSE,
     protocol |-> FALSE, sessionID |-> 0, muW |-> "", muR |-> {},
     errChan |-> <<>>, hooks |-> <<>>]

\* the child before cmd.Start()
ProcNone == [ProcStarted EXCEPT !.state = "none"]

\* NewSubprocessTransport: not connected, no goroutine started
NewSubprocessTransport ==
    [TransportConnected EXCEPT !.connected = FALSE, !.readLoop = "off",
                               !.wait = "off"]

(***************************************************************************)
(* Client: the public operations.  Each is called by an application        *)
(* goroutine x; a call runs from its Begin action to the action that       *)
(* returns.                                                                *)
(***************************************************************************)
\* a test that forgets c.closed
NeverConnected(c, field) == ~c[field]

\* if c.closed || c.transport == nil   (field "transport")
\* if c.closed || c.protocol == nil    (field "protocol")
NotConnected(c, field) == c.closed \/ ~c[field]

\* goroutine x's call of op returns err before doing anything
Refused(x, op, err) ==
    [thr EXCEPT ![x] = [pc |-> "idle", op |-> op, id |-> 0, how |-> "refused",
                        err |-> err, resp |-> NoMsg, wcalls |-> <<>>,
                        calls |-> @.calls + 1, late |-> hist.closeReturned,
                        hook |-> NoTrigger]]

\* a Send that no chain result holds back
NeverBlocks(out) == FALSE

\* if !output.Continue in Send
Blocks(out) == ~out.continue

\* Send and SendToolResult up to c.transport.Write(data); Send runs the
\* UserPromptSubmit chain first, the callbacks returning outs
UserWriteBegin(x, op, type) ==
    /\ CanCall(x)
    /\ CanRLock
    /\ IF NotConnected(cli, "transport")
       THEN /\ thr' = Refused(x, op, ErrClientNotConnected)
            /\ UNCHANGED cli
       ELSE \E outs \in OutsOf(cli.hooks) :
               LET out == IF op = "Send" THEN Trigger(cli.hooks, outs)
                          ELSE NoTrigger
               IN IF out.err
                  THEN /\ thr' = [Refused(x, op, HookError) EXCEPT
                                     ![x].hook = out]
                       /\ UNCHANGED cli
                  ELSE IF Blocks(out)
                  THEN /\ thr' = [Refused(x, op, BlockedByHook) EXCEPT
                                     ![x].hook = out]
                       /\ UNCHANGED cli
                  ELSE /\ thr' = [Entered(x, op, "write") EXCEPT
                                     ![x].wcalls = StdinWrites(x, type, 0),
                                     ![x].hook = out]
                       /\ cli' = [cli EXCEPT !.muR = @ \cup {x}]
    /\ UNCHANGED <<proc, trans, hand, recv, hist>>

Send(x) == UserWriteBegin(x, "Send", "user")

SendToolResult(x) == UserWriteBegin(x, "SendToolResult", "tool_result")

\* Interrupt and RewindFiles up to c.protocol.SendControlRequest
ControlBegin(x, op) ==
    /\ CanCall(x)
    /\ CanRLock
    /\ IF NotConnected(cli, "protocol")
       THEN /\ thr' = Refused(x, op, ErrClientNotConnected)
            /\ UNCHANGED cli
       ELSE /\ thr' = Entered(x, op, "enroll")
            /\ cli' = [cli EXCEPT !.muR = @ \cup {x}]
    /\ UNCHANGED <<proc, trans, hand, recv, hist>>

Interrupt(x) == ControlBegin(x, "Interrupt")

RewindFiles(x) == ControlBegin(x, "RewindFiles")

\* Connect up to c.initialize: c.mu is held until Connect returns.  The
\* model connects a client once.
Connect(x) ==
    /\ CanCall(x)
    /\ CanLock
    /\ ~cli.transport
    /\ IF cli.closed
       THEN /\ thr' = Refused(x, "Connect", ErrClientClosed)
            /\ UNCHANGED <<proc, trans, hand, cli, recv>>
       ELSE \E started \in BOOLEAN :
               IF started
               THEN /\ proc' = ProcStarted
                    /\ trans' = TransportConnected
                    /\ hand' = NewProtocolHandler
                    /\ cli' = [cli EXCEPT !.transport = TRUE,
                                          !.protocol = TRUE, !.muW = x]
                    /\ recv' = [recv EXCEPT !.pc = "select"]
                    /\ thr' = Entered(x, "Connect", "enroll")
               ELSE \* c.transport.Connect fails: c.transport stays assigned
                    /\ cli' = [cli EXCEPT !.transport = TRUE]
                    /\ thr' = Refused(x, "Connect",
                                 <<SDKError("connect"), Sentinel("ErrCLIConnection")>>)
                    /\ UNCHANGED <<proc, trans, hand, recv>>
    /\ UNCHANGED hist

\* generateRequestID: the counter's next value
GenerateRequestID(h) == h.requestCounter + 1

\* SendControlRequestWithTimeout up to h.transport.Write: a fresh id and its
\* reply slot (the caller's respChan) enter h.pendingRequests
Enroll(x) ==
    /\ thr[x].pc = "enroll"
    /\ LET id == GenerateRequestID(hand)
       IN /\ hand' = [hand EXCEPT
                         !.requestCounter = id,
                         !.pendingRequests = @ \cup {[id |-> id, ch |-> x]}]
          /\ thr' = [thr EXCEPT
                        ![x].pc = "write", ![x].id = id,
                        ![x].wcalls = StdinWrites(x, "control_request", id)]
    /\ UNCHANGED <<proc, trans, cli, recv, hist>>

\* case resp := <-respChan
CallReply(x) ==
    /\ thr[x].pc = "wait"
    /\ thr[x].resp # NoMsg
    /\ ControlReturns(x, "reply", <<>>, thr[x].resp)
    /\ UNCHANGED <<proc, trans, recv, hist>>

\* case <-timeoutCtx.Done(): the timeout elapsed, or the caller's context
\* was canceled
CallTimeout(x) ==
    /\ thr[x].pc = "wait"
    /\ \E cause \in {"context.DeadlineExceeded", "context.Canceled"} :
          ControlReturns(x,
              IF cause = "context.DeadlineExceeded" THEN "timeout" ELSE "canceled",
              TimeoutError(cause), NoMsg)
    /\ UNCHANGED <<proc, trans, recv, hist>>

\* Connect after initialize failed: c.transport.Close(), return the error
ConnectCloseTransport(x) ==
    /\ thr[x].pc = "connClose"
    /\ trans.muR = {}
    /\ trans' = TransportCloseBody(trans)
    /\ proc' = Killed(proc)
    /\ thr' = Returned(x, thr[x].how, thr[x].err, thr[x].resp)
    /\ cli' = Unlocked(cli, x)
    /\ UNCHANGED <<hand, recv, hist>>

\* the session id a control response payload carries (0: none or empty)
SidOfResponse(msg) == msg.sid

\* the session id a raw message carries where extractSessionIDFromRawMessage
\* looks for it: in result and system messages only
SidOfRaw(msg) == IF msg.type \in {"result", "system"} THEN msg.sid ELSE 0

\* extractSessionIDFromResponse: if c.sessionID.Load() != nil { return }
ConnectLoad(x) ==
    /\ thr[x].pc = "load"
    /\ IF cli.sessionID = 0 /\ SidOfResponse(thr[x].resp) # 0
       THEN /\ thr' = [thr EXCEPT ![x].pc = "cas"]
            /\ UNCHANGED cli
       ELSE /\ thr' = Returned(x, thr[x].how, <<>>, thr[x].resp)
            /\ cli' = Unlocked(cli, x)
    /\ UNCHANGED <<proc, trans, hand, recv, hist>>

\* extractSessionIDFromResponse: c.sessionID.CompareAndSwap(nil, &sid)
ConnectCAS(x) ==
    /\ thr[x].pc = "cas"
    /\ thr' = Returned(x, thr[x].how, <<>>, thr[x].resp)
    /\ cli' = Unlocked([cli EXCEPT !.sessionID =
                 CompareAndSwap(@, 0, SidOfResponse(thr[x].resp))], x)
    /\ UNCHANGED <<proc, trans, hand, recv, hist>>

\* ProtocolHandler.Close: close(h.msgChan); close(h.errChan)
HandlerClose(h) == [h EXCEPT !.closes = @ + 1]

\* Client.Close up to c.transport.Close()
Close(x) ==
    /\ CanCall(x)
    /\ CanLock
    /\ IF cli.closed
       THEN /\ thr' = ReturnedFrom(Entered(x, "Close", "idle"), x, "noop", <<>>, NoMsg)
            /\ hist' = [hist EXCEPT !.closeReturned = TRUE]
            /\ UNCHANGED <<cli, hand>>
       ELSE /\ hand' = IF cli.protocol THEN HandlerClose(hand) ELSE hand
            /\ IF cli.transport
               THEN /\ cli' = [cli EXCEPT !.closed = TRUE,
                                          !.closeChanCloses = @ + 1, !.muW = x]
                    /\ thr' = Entered(x, "Close", "closeT")
                    /\ UNCHANGED hist
               ELSE /\ cli' = [cli EXCEPT !.closed = TRUE,
                                          !.closeChanCloses = @ + 1]
                    /\ thr' = ReturnedFrom(Entered(x, "Close", "idle"), x,
                                           "closed", <<>>, NoMsg)
                    /\ hist' = [hist EXCEPT !.closeReturned = TRUE]
    /\ UNCHANGED <<proc, trans, recv>>

\* Client.Close: return c.transport.Close()
CloseTransport(x) ==
    /\ thr[x].pc = "closeT"
    /\ trans.muR = {}
    /\ trans' = TransportCloseBody(trans)
    /\ proc' = Killed(proc)
    /\ thr' = Returned(x, "closed", <<>>, NoMsg)
    /\ cli' = Unlocked(cli, x)
    /\ hist' = [hist EXCEPT !.closeReturned = TRUE]
    /\ UNCHANGED <<hand, recv>>

\* Client.SessionID(): the value returned (0: ErrSessionIDNotReady)
SessionID ==
    /\ hist.sidSeen # cli.sessionID
    /\ hist' = [hist EXCEPT !.sidSeen = cli.sessionID]
    /\ UNCHANGED <<proc, trans, clientVars>>

(***************************************************************************)
(* ProtocolHandler.HandleIncoming                                          *)
(***************************************************************************)
\* the message a raw message decodes to; text that is not one whole object
\* of the child has no type
MessageOf(raw) ==
    IF WholeObject(raw) THEN proc.wire[raw[1].obj].msg ELSE NoMsg

\* the message types ParseMessage gives a variant of their own and that
\* HandleIncoming hands to the application
KnownTypes == {"assistant", "system", "user", "result"}

\* case *AssistantMessage, *SystemMessage, *UserMessage, *ResultMessage:
\* send, and when the channel is full discard the oldest message first
ForwardKnown(ch, m) ==
    IF Len(ch) < AppCap THEN Append(ch, m) ELSE Append(Tail(ch), m)

\* default (a GenericMessage): send only if the channel has room
ForwardGeneric(ch, m) ==
    IF Len(ch) < AppCap THEN Append(ch, m) ELSE ch

\* a lookup that ignores the request id: any enrolled slot is found
LookupAny(pending, rid) == pending

\* h.pendingRequests[resp.Response.RequestID]
Lookup(pending, rid) == {e \in pending : e.id = rid}

\* handleControlResponse: a non-blocking send on the reply slot enrolled
\* under the response's request id; no slot, or a slot already filled,
\* drops the response
Delivered(t, pending, msg) ==
    LET es == Lookup(pending, msg.rid)
    IN IF es = {} THEN t
       ELSE LET e == CHOOSE e \in es : TRUE
            IN IF t[e.ch].resp = NoMsg THEN [t EXCEPT ![e.ch].resp = msg] ELSE t

(***************************************************************************)
(* ProtocolHandler: inbound control requests.  A control response is its   *)
(* subtype and what it carries: the error text, or the callback's answer.  *)
(***************************************************************************)
Reply(sub, text) == [sub |-> sub, text |-> text]

\* no reply decided yet: a callback is to be called first
NoReply == Reply("", "")

\* a failure answered through sendControlSuccess
SendControlErrorAsSuccess(text) == Reply("success", text)

\* sendControlError(requestID, errMsg)
SendControlError(text) == Reply("error", text)

\* sendControlSuccess(requestID, response)
SendControlSuccess(text) == Reply("success", text)

\* a response numbered by the handler's own request counter
FreshResponseID(h, rid) == GenerateRequestID(h)

\* RequestID: requestID in sendControlSuccess and sendControlError: the
\* response echoes the inbound request's id
ResponseID(h, rid) == rid

\* h.transport.Write(data) of a control response: the writes of the receive
\* loop, each unit carrying the response's subtype and content
ControlResponseWrites(id, reply) ==
    LET calls == StdinWrites("loop", "control_response", id)
    IN [c \in DOMAIN calls |->
           [k \in DOMAIN calls[c] |-> calls[c][k] @@ reply]]

\* the text of the error a failing callback returns
CallbackError == "callback failed"

\* no callback to give an MCP message to
NoMCPCallback == "no MCP message callback"

\* handleControlRequest and the head of handleCanUseTool, handleHookCallback
\* and handleMCPMessage: the reply made without calling a callback, NoReply
\* when a registered callback decides
ReplyWithoutCallback(h, msg) ==
    IF msg.sub = "malformed"
    THEN SendControlError("invalid request format")
    ELSE IF msg.sub = "can_use_tool"
    THEN IF h.canUseToolCallback THEN NoReply ELSE SendControlSuccess("allow")
    ELSE IF msg.sub = "hook_callback"
    THEN IF h.hookCallbacks > 0 THEN NoReply ELSE SendControlSuccess("continue")
    ELSE IF msg.sub = "mcp_message"
    THEN IF h.mcpMessageCallback THEN NoReply
         ELSE SendControlError(NoMCPCallback)
    ELSE SendControlSuccess("null")

\* what a callback of the application can return
CallbackOutcomes(sub) ==
    IF sub = "can_use_tool" THEN {"error", "allow", "deny"}
    ELSE IF sub = "hook_callback" THEN {"error", "continue", "stop"}
    ELSE {"error", "answer"}

(***************************************************************************)
(* Client.receiveLoop                                                      *)
(***************************************************************************)
\* inner is the goroutine name under which the running callback's own call
\* of a client operation is recorded ("": the callback made none)
RecvOff ==
    [pc |-> "off", raw |-> <<>>, err |-> "", wcalls |-> <<>>, left |-> 0,
     inner |-> ""]

\* a receive that takes the newest buffered element instead of the oldest
ReceiveNewest(ch) ==
    [val |-> ch[Len(ch)], rest |-> SubSeq(ch, 1, Len(ch) - 1)]

\* <-ch on a buffered channel: the oldest element, and what stays buffered
Receive(ch) == [val |-> Head(ch), rest |-> Tail(ch)]

\* case rawMsg, ok := <-c.transport.Messages(), and the Load that opens
\* extractSessionIDFromRawMessage
RecvTake ==
    /\ recv.pc = "select"
    /\ trans.msgChan # <<>>
    /\ LET raw == Receive(trans.msgChan).val
       IN recv' = [recv EXCEPT
                      !.raw = raw,
                      !.pc = IF cli.sessionID = 0 /\ SidOfRaw(MessageOf(raw)) # 0
                             THEN "cas" ELSE "handle"]
    /\ trans' = [trans EXCEPT !.msgChan = Receive(@).rest]
    /\ UNCHANGED <<proc, hand, cli, thr, hist>>

\* a receive loop that records the id under c.mu.Lock()
SessionCellUnderLock == CanLock

\* extractSessionIDFromRawMessage takes no lock: the cell is an
\* atomic.Pointer, written by compare-and-swap
SessionCellWritable == TRUE

\* extractSessionIDFromRawMessage: c.sessionID.CompareAndSwap(nil, &sid)
RecvCAS ==
    /\ recv.pc = "cas"
    /\ SessionCellWritable
    /\ cli' = [cli EXCEPT !.sessionID =
                  CompareAndSwap(@, 0, SidOfRaw(MessageOf(recv.raw)))]
    /\ recv' = [recv EXCEPT !.pc = "handle"]
    /\ UNCHANGED <<proc, trans, hand, thr, hist>>

\* c.protocol.HandleIncoming(ctx, rawMsg)
RecvHandle ==
    /\ recv.pc = "handle"
    /\ LET msg == MessageOf(recv.raw)
           o == recv.raw[1].obj
           sent == IF msg.type \in KnownTypes
                   THEN ForwardKnown(hand.msgChan, o)
                   ELSE ForwardGeneric(hand.msgChan, o)
       IN IF msg.type = ""
          THEN \* ParseMessage fails: the error goes to c.errChan
               /\ recv' = [recv EXCEPT !.pc = "fwdErr", !.err = "parse"]
               /\ UNCHANGED <<trans, hand, thr, hist>>
          ELSE IF msg.type = "control_response"
          THEN /\ thr' = Delivered(thr, hand.pendingRequests, msg)
               /\ recv' = [recv EXCEPT !.pc = "select"]
               /\ hist' = [hist EXCEPT !.handled = Append(@, o)]
               /\ UNCHANGED <<trans, hand>>
          ELSE IF msg.type = "control_request"
          THEN \* handleControlRequest: the reply is written by this goroutine,
               \* after the callback if one is registered
               LET r == ReplyWithoutCallback(hand, msg)
               IN /\ recv' = IF r = NoReply
                             THEN [recv EXCEPT
                                      !.pc = "callback",
                                      !.left = IF msg.sub = "hook_callback"
                                               THEN hand.hookCallbacks ELSE 1]
                             ELSE [recv EXCEPT
                                      !.pc = "write",
                                      !.wcalls = ControlResponseWrites(
                                                    ResponseID(hand, msg.rid), r)]
                  /\ hist' = [hist EXCEPT
                                 !.handled = Append(@, o),
                                 !.failed =
                                    IF /\ msg.sub = "mcp_message"
                                       /\ ~hand.mcpMessageCallback
                                    THEN @ \cup {[o |-> o, text |-> NoMCPCallback]}
                                    ELSE @]
                  /\ UNCHANGED <<trans, hand, thr>>
          ELSE IF hand.closes > 0
          THEN \* a send on the closed h.msgChan panics
               /\ recv' = [recv EXCEPT !.pc = "panic"]
               /\ hist' = [hist EXCEPT !.panics = @ + 1]
               /\ UNCHANGED <<trans, hand, thr>>
          ELSE /\ hand' = [hand EXCEPT !.msgChan = sent]
               /\ recv' = [recv EXCEPT !.pc = "select"]
               /\ hist' = [hist EXCEPT
                              !.handled = Append(@, o),
                              !.forwarded = IF sent # <<>> /\ sent[Len(sent)] = o
                                            THEN Append(@, o) ELSE @]
               /\ UNCHANGED <<trans, thr>>
    /\ UNCHANGED <<proc, cli>>

\* the callback the receive loop is in can return: a call it made on the
\* client has returned
CallbackCanReturn ==
    IF recv.inner = "" THEN TRUE ELSE thr[recv.inner].pc = "idle"

\* resp, err := cb(ctx, &req) in handleCanUseTool and handleMCPMessage, and
\* one round of the loop over callbacks in handleHookCallback: the callback
\* returns
RecvCallback ==
    /\ recv.pc = "callback"
    /\ CallbackCanReturn
    /\ LET msg == MessageOf(recv.raw)
           o == recv.raw[1].obj
       IN \E out \in CallbackOutcomes(msg.sub) :
             IF out = "continue" /\ recv.left > 1
             THEN /\ recv' = [recv EXCEPT !.left = @ - 1, !.inner = ""]
                  /\ UNCHANGED hist
             ELSE LET r == IF out = "error"
                           THEN SendControlError(CallbackError)
                           ELSE SendControlSuccess(out)
                  IN /\ recv' = [recv EXCEPT
                                    !.pc = "write", !.left = 0, !.inner = "",
                                    !.wcalls = ControlResponseWrites(
                                                  ResponseID(hand, msg.rid), r)]
                     /\ hist' = [hist EXCEPT
                                    !.failed =
                                       IF out = "error"
                                       THEN @ \cup {[o |-> o, text |-> CallbackError]}
                                       ELSE @]
    /\ UNCHANGED <<proc, trans, hand, cli, thr>>

\* Transport.Write called by the receive loop for a control response
RecvWriteBegin ==
    /\ recv.pc = "write"
    /\ IF ~trans.connected
       THEN /\ recv' = [recv EXCEPT !.pc = "fwdErr", !.err = "not connected",
                                    !.wcalls = <<>>]
            /\ UNCHANGED trans
       ELSE /\ trans' = [trans EXCEPT !.muR = @ \cup {"loop"}]
            /\ recv' = [recv EXCEPT !.pc = "stdin"]
    /\ UNCHANGED <<proc, hand, cli, thr, hist>>

RecvWriteStdin ==
    /\ recv.pc = "stdin"
    /\ LET call == Head(recv.wcalls)
           rest == Tail(recv.wcalls)
       IN IF trans.stdinClosed
          THEN /\ trans' = [trans EXCEPT !.muR = @ \ {"loop"}]
               /\ recv' = [recv EXCEPT !.pc = "fwdErr", !.err = "write",
                                       !.wcalls = <<>>]
          ELSE IF rest = <<>>
          THEN /\ trans' = [trans EXCEPT !.stdin = @ \o call,
                                         !.muR = @ \ {"loop"}]
               /\ recv' = [recv EXCEPT !.pc = "select", !.wcalls = <<>>]
          ELSE /\ trans' = [trans EXCEPT !.stdin = @ \o call]
               /\ recv' = [recv EXCEPT !.wcalls = rest]
    /\ UNCHANGED <<proc, hand, cli, thr, hist>>

\* case err := <-c.transport.Errors()
RecvTakeErr ==
    /\ recv.pc = "select"
    /\ trans.errChan # <<>>
    /\ trans' = [trans EXCEPT !.errChan = Tail(@)]
    /\ recv' = [recv EXCEPT !.pc = "fwdErr", !.err = Head(trans.errChan)]
    /\ UNCHANGED <<proc, hand, cli, thr, hist>>

\* c.errChan <- err   (blocks while full)
RecvForwardErr ==
    /\ recv.pc = "fwdErr"
    /\ Len(cli.errChan) < ErrCap
    /\ cli' = [cli EXCEPT !.errChan = Append(@, recv.err)]
    /\ recv' = [recv EXCEPT !.pc = "select", !.err = ""]
    /\ UNCHANGED <<proc, trans, hand, thr, hist>>

\* case <-c.closeChan: return;  and  rawMsg, ok := <-Messages(); !ok: return
RecvReturn ==
    /\ recv.pc = "select"
    /\ \/ cli.closeChanCloses > 0
       \/ trans.msgChan = <<>> /\ trans.msgChanClosed
    /\ recv' = [recv EXCEPT !.pc = "done"]
    /\ UNCHANGED <<proc, trans, hand, cli, thr, hist>>

(***************************************************************************)
(* SubprocessTransport.waitProcess                                         *)
(***************************************************************************)
\* err := t.cmd.Wait() returns: nil when the child exited with status 0, an
\* *exec.ExitError when it exited with another status or was killed; under
\* t.mu: t.connected = false
WaitProcess ==
    /\ trans.wait = "wait"
    /\ proc.state = "exited"
    /\ trans.muR = {}
    /\ \E failed \in BOOLEAN :
          trans' = [trans EXCEPT !.connected = FALSE, !.waitErr = failed,
                                 !.wait = IF failed THEN "report" ELSE "close"]
    /\ UNCHANGED <<proc, hist, clientVars>>

\* if err != nil { t.errChan <- "CLI process exited" }   (blocks while full)
WaitProcessReport ==
    /\ trans.wait = "report"
    /\ Len(trans.errChan) < ErrCap
    /\ trans' = [trans EXCEPT !.errChan = Append(@, "exited"),
                              !.wait = "close"]
    /\ UNCHANGED <<proc, hist, clientVars>>

\* close(t.errChan)
WaitProcessClose ==
    /\ trans.wait = "close"
    /\ trans' = [trans EXCEPT !.errChanClosed = TRUE, !.wait = "done"]
    /\ UNCHANGED <<proc, hist, clientVars>>

(***************************************************************************)
(* The application's consumers and the child of a client.                  *)
(***************************************************************************)
\* <-client.Messages()
TakeMessage ==
    /\ hand.msgChan # <<>>
    /\ hand' = [hand EXCEPT !.msgChan = Tail(@)]
    /\ UNCHANGED <<proc, trans, cli, recv, thr, hist>>

\* <-client.Errors()
TakeError ==
    /\ cli.errChan # <<>>
    /\ cli' = [cli EXCEPT !.errChan = Tail(@)]
    /\ UNCHANGED <<proc, trans, hand, recv, thr, hist>>

\* the child prints a one-line object
ChildEmit(msg) ==
    /\ ChildCanWrite
    /\ proc.part = 0
    /\ Len(proc.wire) < MaxObjs
    /\ ChildWriteFirst(1, msg)
    /\ UNCHANGED <<trans, hist, clientVars>>

\* no Query is running: what it has collected (positions on the wire), the
\* result message, how it returned, and whether it returned a nil result
QueryOff ==
    [pc |-> "off", messages |-> <<>>, result |-> 0, how |-> "", err |-> <<>>,
     nil |-> FALSE]

\* claude.DefaultRetryConfig; durations in quarters of a second, the
\* factor in halves
DefaultRetryConfig ==
    [MaxRetries |-> 3, InitialBackoff |-> 4, MaxBackoff |-> 120,
     BackoffFactor |-> 4, Jitter |-> TRUE]

\* no WithRetry is running: its locals, the context, and what it did (the
\* errors fn returned and the durations it waited, in order)
RetryOff ==
    [pc |-> "off", nilConfig |-> FALSE, config |-> DefaultRetryConfig,
     attempt |-> 0, backoff |-> 0, lastErr |-> <<>>, wake |-> "",
     ctxDone |-> FALSE, asleepCancel |-> 0, calls |-> 0, errs |-> <<>>,
     waits |-> <<>>, ret |-> <<>>]

\* the goroutines that call the MCP client: Connect's caller and two that
\* call ListTools
McpCallers == {"conn", "t1", "t2"}

\* a goroutine that has not called the MCP client
McpIdle == [pc |-> "idle", id |-> 0, chan |-> <<>>, err |-> ""]

\* a mcp.Transport that was never connected: what was sent through it, what
\* the server sent and Receive has not returned yet, and how many messages
\* the server has sent
McpTransportNew ==
    [connected |-> FALSE, closed |-> FALSE, sent |-> <<>>, inbox |-> <<>>,
     served |-> 0]

\* mcp.NewMCPClient(name, transport), with its receive loop, its callers and
\* the last message the receive loop handled
NewMCPClient ==
    [connected |-> FALSE, reqID |-> 0, pendingReqs |-> {}, msgChan |-> <<>>,
     stopped |-> FALSE, loop |-> "off", tr |-> McpTransportNew,
     th |-> [x \in McpCallers |-> McpIdle], handled |-> <<>>]

\* no package is used on its own
LibUnused == [perm |-> [mode |-> "", rules |-> <<>>, canUseTool |-> FALSE],
              result |-> <<>>, query |-> QueryOff, retry |-> RetryOff,
              mcp |-> NewMCPClient,
              hooks |-> [entries |-> <<>>, fired |-> <<>>]]

\* the client's state in a specification of the bare transport
InitNoClient ==
    /\ hand = NewProtocolHandler
    /\ cli = NewClient
    /\ recv = RecvOff
    /\ thr = [x \in Apps |-> Idle]

\* a client fresh from NewClient: nothing spawned yet
InitClient ==
    /\ proc = ProcNone
    /\ trans = NewSubprocessTransport
    /\ hist = HistEmpty
    /\ lib = LibUnused
    /\ InitNoClient

\* the initialize response of a child that reports no session id
InitResponse ==
    [type |-> "control_response", rid |-> 1, sub |-> "success", sid |-> 0]

\* a client whose Connect has returned a stream: the application's main
\* goroutine called it, the child answered initialize, nothing else happened;
\* h is the protocol handler with the callbacks the application registered,
\* entries the UserPromptSubmit hooks of the options
InitConnectedWith(h, entries) ==
    /\ proc = [ProcStarted EXCEPT !.wire = <<[n |-> 1, msg |-> InitResponse]>>]
    /\ trans = [TransportConnected EXCEPT
                   !.stdin = <<Body("main", "control_request", 1),
                               Newline("main", "control_request", 1)>>]
    /\ hand = h
    /\ cli = [NewClient EXCEPT !.transport = TRUE, !.protocol = TRUE,
                              !.hooks = entries]
    /\ recv = [RecvOff EXCEPT !.pc = "select",
                              !.raw = <<PartLine(1, 1, 1, FALSE)>>]
    /\ thr = [x \in Apps |-> Idle]
    /\ hist = [HistEmpty EXCEPT !.rawLog = << <<PartLine(1, 1, 1, FALSE)>> >>,
                                !.scanned = <<PartLine(1, 1, 1, FALSE)>>,
                                !.handled = <<1>>]
    /\ lib = LibUnused

\* the same, no callback and no hook registered
InitConnected ==
    InitConnectedWith([NewProtocolHandler EXCEPT !.requestCounter = 1], <<>>)

InitFramer ==
    /\ proc = ProcStarted
    /\ trans = TransportConnected
    /\ hist = HistEmpty
    /\ lib = LibUnused
    /\ InitNoClient

NextFramer ==
    \/ ChildStartObject /\ UNCHANGED lib
    \/ ChildNextPart /\ UNCHANGED lib
    \/ ChildBlankLine /\ UNCHANGED lib
    \/ ChildJunkLine /\ UNCHANGED lib
    \/ ChildExit /\ UNCHANGED lib
    \/ ReadLoopScan /\ UNCHANGED lib
    \/ ReadLoopEmit /\ UNCHANGED lib
    \/ ReadLoopOverflow /\ UNCHANGED lib
    \/ ReadLoopEOF /\ UNCHANGED lib
    \/ TransportClose /\ UNCHANGED lib
    \/ TakeRaw /\ UNCHANGED lib
    \/ TakeErr /\ UNCHANGED lib

SpecFramer == InitFramer /\ [][NextFramer]_vars

(***************************************************************************)
(* SpecSession: one client connecting, the child answering initialize and  *)
(* printing messages that carry session ids.                               *)
(***************************************************************************)
\* the child answers the initialize request, with or without a session id
ChildInitResponse ==
    \E sid \in 0..MaxSid :
        ChildEmit([type |-> "control_response", rid |-> 1, sub |-> "success",
                   sid |-> sid])

\* the child prints a message that carries a session id
ChildSessionMessage ==
    \E type \in {"result", "system", "assistant"}, sid \in 1..MaxSid :
        ChildEmit([type |-> type, rid |-> 0, sub |-> "", sid |-> sid])

NextSession ==
    \/ \E x \in Apps : Connect(x) /\ UNCHANGED lib
    \/ \E x \in Apps : Enroll(x) /\ UNCHANGED lib
    \/ \E x \in Apps : WriteBegin(x) /\ UNCHANGED lib
    \/ \E x \in Apps : WriteStdin(x) /\ UNCHANGED lib
    \/ \E x \in Apps : CallReply(x) /\ UNCHANGED lib
    \/ \E x \in Apps : CallTimeout(x) /\ UNCHANGED lib
    \/ \E x \in Apps : ConnectLoad(x) /\ UNCHANGED lib
    \/ \E x \in Apps : ConnectCAS(x) /\ UNCHANGED lib
    \/ \E x \in Apps : ConnectCloseTransport(x) /\ UNCHANGED lib
    \/ ChildInitResponse /\ UNCHANGED lib
    \/ ChildSessionMessage /\ UNCHANGED lib
    \/ ReadLoopScan /\ UNCHANGED lib
    \/ ReadLoopEmit /\ UNCHANGED lib
    \/ RecvTake /\ UNCHANGED lib
    \/ RecvCAS /\ UNCHANGED lib
    \/ RecvHandle /\ UNCHANGED lib
    \/ TakeMessage /\ UNCHANGED lib
    \/ SessionID /\ UNCHANGED lib

SpecSession == InitClient /\ [][NextSession]_vars

\* C1: the session-id cell is written at most once, under every
\* interleaving of the two extractors and whatever ids the messages carry:
\* a set cell never changes, and once SessionID() has returned v every later
\* call returns v.
C1_SessionIdWrittenOnce ==
    [][/\ cli.sessionID # 0 => cli'.sessionID = cli.sessionID
       /\ hist.sidSeen # 0 => hist'.sidSeen = hist.sidSeen]_vars

\* SessionID() has returned the id the initialize response carried, and the
\* receive loop, which loaded an empty cell, is about to compare-and-swap a
\* different id
C1_Witness ==
    /\ hist.sidSeen # 0
    /\ hist.sidSeen = cli.sessionID
    /\ recv.pc = "cas"
    /\ SidOfRaw(MessageOf(recv.raw)) # cli.sessionID
    /\ \E x \in Apps :
          /\ thr[x].op = "Connect"
          /\ thr[x].pc = "idle"
          /\ SidOfResponse(thr[x].resp) = cli.sessionID

\* the objects that reached the client whole, by position on the wire; the
\* raw channel is first-in first-out, so they arrived in this order
Arrived ==
    {hist.rawLog[k][1].obj : k \in {j \in DOMAIN hist.rawLog :
                                       WholeObject(hist.rawLog[j])}}

\* an arrived input that carries a session id where the client looks for
\* one: a result or system message, or the control response that answered
\* the initialize request the client had written
IdBearing(o) ==
    LET m == proc.wire[o].msg
    IN \/ SidOfRaw(m) # 0
       \/ /\ m.type = "control_response"
          /\ SidOfResponse(m) # 0
          /\ \E x \in Apps : /\ thr[x].op = "Connect"
                              /\ thr[x].resp = m
                              /\ thr[x].pc \notin {"enroll", "write", "stdin"}

\* C16: the session id in the cell is the id of the id-bearing input that
\* arrived first: an id carried by a later-arriving message never wins
\* over the id of an earlier-arriving initialize response or message.
C16_FirstArrivedIdWins ==
    cli.sessionID # 0 =>
        \A o \in Arrived :
            (IdBearing(o) /\ \A p \in Arrived : IdBearing(p) => o <= p) =>
                cli.sessionID = proc.wire[o].msg.sid

(***************************************************************************)
(* SpecCtl: a connected client issuing control requests from two           *)
(* goroutines, the child answering in any order, also with ids nobody      *)
(* waits for.                                                              *)
(***************************************************************************)
\* the child prints a success control response
ChildRespond ==
    \E rid \in 1..MaxRid :
        ChildEmit([type |-> "control_response", rid |-> rid, sub |-> "success",
                   sid |-> 0])

\* the child prints an error control response
ChildRespondError ==
    \E rid \in 1..MaxRid :
        ChildEmit([type |-> "control_response", rid |-> rid, sub |-> "error",
                   sid |-> 0])

NextCtl ==
    \/ \E x \in Apps : Interrupt(x) /\ UNCHANGED lib
    \/ \E x \in Apps : RewindFiles(x) /\ UNCHANGED lib
    \/ \E x \in Apps : Enroll(x) /\ UNCHANGED lib
    \/ \E x \in Apps : WriteBegin(x) /\ UNCHANGED lib
    \/ \E x \in Apps : WriteStdin(x) /\ UNCHANGED lib
    \/ \E x \in Apps : CallReply(x) /\ UNCHANGED lib
    \/ \E x \in Apps : CallTimeout(x) /\ UNCHANGED lib
    \/ ChildRespond /\ UNCHANGED lib
    \/ ChildRespondError /\ UNCHANGED lib
    \/ ReadLoopScan /\ UNCHANGED lib
    \/ ReadLoopEmit /\ UNCHANGED lib
    \/ RecvTake /\ UNCHANGED lib
    \/ RecvHandle /\ UNCHANGED lib

SpecCtl == InitConnected /\ [][NextCtl]_vars

\* the receive loop handles a control response in this step
HandlesResponse ==
    /\ recv.pc = "handle"
    /\ recv'.pc # "handle"
    /\ MessageOf(recv.raw).type = "control_response"

\* C2: a reply returned by SendControlRequest carries the id generated for
\* that call, whatever the order of the responses; a control response wakes
\* only the waiter enrolled under its request id, and one whose id is not
\* enrolled changes no waiter and no entry of the pending table.
C2_ReplyMatchesRequest ==
    [][/\ \A x \in Apps :
             (thr'[x].pc = "idle" /\ thr'[x].how = "reply")
                 => thr'[x].resp.rid = thr'[x].id
       /\ HandlesResponse =>
             /\ hand' = hand
             /\ \A y \in Apps :
                   thr'[y] # thr[y] =>
                       /\ [id |-> MessageOf(recv.raw).rid, ch |-> y]
                              \in hand.pendingRequests
                       /\ thr[y].id = MessageOf(recv.raw).rid
                       /\ thr'[y] = [thr[y] EXCEPT !.resp = MessageOf(recv.raw)]
      ]_vars

\* two requests were outstanding together and both calls have returned
\* their replies, the later request's response having come first on the wire
C2_Witness ==
    \E x, y \in Apps :
        /\ thr[x].pc = "idle" /\ thr[x].how = "reply"
        /\ thr[y].pc = "idle" /\ thr[y].how = "reply"
        /\ thr[x].id < thr[y].id
        /\ \E i, j \in DOMAIN hist.handled :
              /\ i < j
              /\ proc.wire[hist.handled[i]].msg.rid = thr[y].id
              /\ proc.wire[hist.handled[j]].msg.rid = thr[x].id

(***************************************************************************)
(* SpecTimeout: a client connecting and issuing control requests to a      *)
(* child that answers initialize at most, so that requests time out.       *)
(***************************************************************************)
\* the child answers the initialize request it has read from its stdin
ChildAnswerInitialize ==
    /\ proc.wire = <<>>
    /\ \E i \in DOMAIN trans.stdin : trans.stdin[i].id = 1
    /\ ChildEmit(InitResponse)

NextTimeout ==
    \/ \E x \in Apps : Connect(x) /\ UNCHANGED lib
    \/ \E x \in Apps : Interrupt(x) /\ UNCHANGED lib
    \/ \E x \in Apps : RewindFiles(x) /\ UNCHANGED lib
    \/ \E x \in Apps : Enroll(x) /\ UNCHANGED lib
    \/ \E x \in Apps : WriteBegin(x) /\ UNCHANGED lib
    \/ \E x \in Apps : WriteStdin(x) /\ UNCHANGED lib
    \/ \E x \in Apps : CallReply(x) /\ UNCHANGED lib
    \/ \E x \in Apps : CallTimeout(x) /\ UNCHANGED lib
    \/ \E x \in Apps : ConnectLoad(x) /\ UNCHANGED lib
    \/ \E x \in Apps : ConnectCloseTransport(x) /\ UNCHANGED lib
    \/ ChildAnswerInitialize /\ UNCHANGED lib
    \/ ReadLoopScan /\ UNCHANGED lib
    \/ ReadLoopEmit /\ UNCHANGED lib
    \/ RecvTake /\ UNCHANGED lib
    \/ RecvHandle /\ UNCHANGED lib

SpecTimeout == InitClient /\ [][NextTimeout]_vars

\* goroutine x's call has returned because the control-request timeout
\* elapsed with no response
TimedOut(x) == thr[x].pc = "idle" /\ thr[x].how = "timeout"

\* C3: a control request that gets no response before the timeout returns an
\* error matching ErrControlTimeout, and its id has left the pending table.
C3_TimeoutIsErrControlTimeout ==
    \A x \in Apps :
        TimedOut(x) =>
            /\ ErrorsIs(thr[x].err, "ErrControlTimeout")
            /\ Lookup(hand.pendingRequests, thr[x].id) = {}

\* C4: the error Connect, Interrupt or RewindFiles returns when its control
\* request timed out is classified retryable by IsRetryable.
C4_TimeoutIsRetryable ==
    \A x \in Apps :
        (TimedOut(x) /\ thr[x].op \in {"Connect", "Interrupt", "RewindFiles"})
            => IsRetryable(thr[x].err)

(***************************************************************************)
(* SpecLife: the life of one client: connect (the spawn may fail, the      *)
(* child may never answer), use from two goroutines, close any number of   *)
(* times, the child exiting once killed.                                   *)
(***************************************************************************)
NextLife ==
    \/ \E x \in Apps : Connect(x) /\ UNCHANGED lib
    \/ \E x \in Apps : Send(x) /\ UNCHANGED lib
    \/ \E x \in Apps : SendToolResult(x) /\ UNCHANGED lib
    \/ \E x \in Apps : Interrupt(x) /\ UNCHANGED lib
    \/ \E x \in Apps : RewindFiles(x) /\ UNCHANGED lib
    \/ \E x \in Apps : Close(x) /\ UNCHANGED lib
    \/ \E x \in Apps : CloseTransport(x) /\ UNCHANGED lib
    \/ \E x \in Apps : Enroll(x) /\ UNCHANGED lib
    \/ \E x \in Apps : WriteBegin(x) /\ UNCHANGED lib
    \/ \E x \in Apps : WriteStdin(x) /\ UNCHANGED lib
    \/ \E x \in Apps : CallReply(x) /\ UNCHANGED lib
    \/ \E x \in Apps : CallTimeout(x) /\ UNCHANGED lib
    \/ \E x \in Apps : ConnectLoad(x) /\ UNCHANGED lib
    \/ \E x \in Apps : ConnectCloseTransport(x) /\ UNCHANGED lib
    \/ ChildAnswerInitialize /\ UNCHANGED lib
    \/ ReadLoopScan /\ UNCHANGED lib
    \/ ReadLoopEmit /\ UNCHANGED lib
    \/ ReadLoopEOF /\ UNCHANGED lib
    \/ RecvTake /\ UNCHANGED lib
    \/ RecvHandle /\ UNCHANGED lib
    \/ RecvTakeErr /\ UNCHANGED lib
    \/ RecvForwardErr /\ UNCHANGED lib
    \/ RecvReturn /\ UNCHANGED lib
    \/ WaitProcess /\ UNCHANGED lib
    \/ WaitProcessReport /\ UNCHANGED lib
    \/ WaitProcessClose /\ UNCHANGED lib
    \/ TakeError /\ UNCHANGED lib

SpecLife == InitClient /\ [][NextLife]_vars

\* goroutine x returns in this step from a Close that found c.closed set
RepeatedClose(x) ==
    /\ thr'[x].op = "Close"
    /\ thr'[x].how = "noop"
    /\ thr'[x].calls = thr[x].calls + 1

\* C5: Close is idempotent.  Every Close returns success; the client's close
\* channel, the handler's channels and the transport's close channel are
\* each closed at most once, and exactly once after a Close has returned on
\* a client that has them; a repeated Close changes nothing.
C5_CloseIdempotent ==
    [][/\ cli'.closeChanCloses <= 1
       /\ hand'.closes <= 1
       /\ trans'.closeChanCloses <= 1
       /\ \A x \in Apps :
             (thr'[x].op = "Close" /\ thr'[x].pc = "idle") => thr'[x].err = <<>>
       /\ hist'.closeReturned =>
             /\ cli'.closed
             /\ cli'.closeChanCloses = 1
             /\ cli'.protocol => hand'.closes = 1
             /\ cli'.transport =>
                   (trans'.closed /\ trans'.closeChanCloses = 1
                      /\ trans'.stdinClosed)
       /\ \A x \in Apps :
             RepeatedClose(x) =>
                 (cli' = cli /\ hand' = hand /\ trans' = trans /\ proc' = proc)
      ]_vars

\* on a connected client one Close has closed everything and a second Close
\* by another goroutine has returned as well
C5_Witness ==
    \E x, y \in Apps :
        /\ thr[x].op = "Close" /\ thr[x].pc = "idle" /\ thr[x].how = "closed"
        /\ thr[y].op = "Close" /\ thr[y].pc = "idle" /\ thr[y].how = "noop"
        /\ cli.protocol
        /\ hand.closes = 1
        /\ trans.closeChanCloses = 1

\* the operations that talk to the child
TalkingOps == {"Send", "SendToolResult", "Interrupt", "RewindFiles"}

\* C6: once a Client.Close has returned, nothing more is written to the
\* child's stdin, and every Send, SendToolResult, Interrupt or RewindFiles
\* called from then on returns the not-connected error at once.
C6_NotConnectedAfterClose ==
    [][/\ hist.closeReturned => trans'.stdin = trans.stdin
       /\ \A x \in Apps :
             (thr'[x].late /\ thr'[x].op \in TalkingOps)
                 => /\ thr'[x].pc = "idle"
                    /\ thr'[x].err = ErrClientNotConnected
      ]_vars

\* a Send called after Close returned on a connected client has been
\* refused, the transport still believing itself connected
C6_Witness ==
    \E x \in Apps :
        /\ thr[x].late
        /\ thr[x].op = "Send"
        /\ thr[x].pc = "idle"
        /\ thr[x].err = ErrClientNotConnected
        /\ cli.protocol
        /\ trans.connected

(***************************************************************************)
(* SpecWrite: a connected client written to from every side at once: user  *)
(* messages and tool results, outbound control requests, and the receive   *)
(* loop's control responses to the child's control requests.               *)
(***************************************************************************)
\* the child prints a control request of a subtype no callback serves,
\* numbered by its position on the wire
ChildControlRequest ==
    ChildEmit([type |-> "control_request", rid |-> Len(proc.wire) + 1,
               sub |-> "other", sid |-> 0])

NextWrite ==
    \/ \E x \in Apps : Send(x) /\ UNCHANGED lib
    \/ \E x \in Apps : SendToolResult(x) /\ UNCHANGED lib
    \/ \E x \in Apps : Interrupt(x) /\ UNCHANGED lib
    \/ \E x \in Apps : Enroll(x) /\ UNCHANGED lib
    \/ \E x \in Apps : WriteBegin(x) /\ UNCHANGED lib
    \/ \E x \in Apps : WriteStdin(x) /\ UNCHANGED lib
    \/ ChildControlRequest /\ UNCHANGED lib
    \/ ReadLoopScan /\ UNCHANGED lib
    \/ ReadLoopEmit /\ UNCHANGED lib
    \/ RecvTake /\ UNCHANGED lib
    \/ RecvHandle /\ UNCHANGED lib
    \/ RecvWriteBegin /\ UNCHANGED lib
    \/ RecvWriteStdin /\ UNCHANGED lib

SpecWrite == InitConnected /\ [][NextWrite]_vars

ChildMessage ==
    \E type \in {"assistant", "result", "stream_event"} :
        ChildEmit(PlainMsg(type))

NextOrder ==
    \/ \E x \in Apps : Interrupt(x) /\ UNCHANGED lib
    \/ \E x \in Apps : Enroll(x) /\ UNCHANGED lib
    \/ \E x \in Apps : WriteBegin(x) /\ UNCHANGED lib
    \/ \E x \in Apps : WriteStdin(x) /\ UNCHANGED lib
    \/ \E x \in Apps : CallReply(x) /\ UNCHANGED lib
    \/ ChildRespond /\ UNCHANGED lib
    \/ ChildMessage /\ UNCHANGED lib
    \/ ReadLoopScan /\ UNCHANGED lib
    \/ ReadLoopEmit /\ UNCHANGED lib
    \/ RecvTake /\ UNCHANGED lib
    \/ RecvHandle /\ UNCHANGED lib
    \/ TakeMessage /\ UNCHANGED lib

SpecOrder == InitConnected /\ [][NextOrder]_vars

\* the wire positions in seq are in ascending order
Ascending(seq) == \A i, j \in DOMAIN seq : i < j => seq[i] < seq[j]

\* the control messages: those HandleIncoming does not hand to the
\* application
ControlTypes == {"control_request", "control_response"}

\* C9: child-to-parent order is preserved end to end: the receive loop
\* handles messages in wire order, the application channel holds them in
\* wire order, and when a control response is in its waiter's hands every
\* message before it on the wire has been handled.
C9_OrderPreserved ==
    /\ Ascending(hist.handled)
    /\ Ascending(hist.forwarded)
    /\ Ascending(hand.msgChan)
    /\ \A x \in Apps :
          thr[x].resp # NoMsg =>
              \E k \in DOMAIN proc.wire :
                  /\ proc.wire[k].msg = thr[x].resp
                  /\ \A j \in 1..k :
                        \E i \in DOMAIN hist.handled : hist.handled[i] = j

\* a call has returned the reply the child wrote after an assistant message,
\* and both have been handled
C9_Witness ==
    \E x \in Apps :
        /\ thr[x].pc = "idle" /\ thr[x].how = "reply"
        /\ Len(proc.wire) = 3
        /\ proc.wire[2].msg.type = "assistant"
        /\ proc.wire[3].msg = thr[x].resp
        /\ hist.handled = <<1, 2, 3>>
        /\ hist.forwarded = <<2>>

\* C10: every message HandleIncoming has handled that is neither a control
\* request nor a control response was enqueued on the application channel,
\* a full channel giving up its oldest message and never the new one.
C10_NonControlForwarded ==
    \A i \in DOMAIN hist.handled :
        proc.wire[hist.handled[i]].msg.type \notin ControlTypes
            => \E j \in DOMAIN hist.forwarded :
                  hist.forwarded[j] = hist.handled[i]

(***************************************************************************)
(* Framer properties.                                                      *)
(***************************************************************************)
\* readLoop has processed the last line of object o
FullyScanned(o) ==
    \E j \in DOMAIN hist.scanned :
        LET l == hist.scanned[j] IN l.k = "part" /\ l.obj = o /\ l.i = l.n

\* the lines of object o that readLoop has processed, in order
LinesOf(o) == SelectSeq(hist.scanned, LAMBDA l : l.k = "part" /\ l.obj = o)

\* the raw messages that hold a line of object o
RawsOf(o) ==
    {j \in DOMAIN hist.rawLog :
        \E i \in DOMAIN hist.rawLog[j] : hist.rawLog[j][i].obj = o}

\* C8: every JSON object whose N lines the framer has read is emitted as
\* exactly one raw message, the concatenation of its lines; no raw message
\* holds parts of two objects and no object is spread over two raw messages.
C8_ObjectIsOneRawMessage ==
    /\ \A j \in DOMAIN hist.rawLog : WholeObject(hist.rawLog[j])
    /\ \A o \in 1..Len(proc.wire) :
          (FullyScanned(o) /\ trans.readLoop \in {"scan", "done"})
              => /\ Cardinality(RawsOf(o)) = 1
                 /\ \A j \in RawsOf(o) : hist.rawLog[j] = LinesOf(o)

\* the sends on the raw message channel that carried object o, whole
SendsOf(o) == {j \in DOMAIN hist.rawLog : hist.rawLog[j] = LinesOf(o)}

\* C30: the framer never loses a message: every complete JSON object it has
\* read from the child's stdout before close has been sent on the raw
\* message channel exactly once (the send waiting while the channel is full).
C30_FramerLosesNoMessage ==
    \A o \in 1..Len(proc.wire) :
        (FullyScanned(o) /\ trans.readLoop = "scan" /\ ~trans.closed)
            => Cardinality(SendsOf(o)) = 1

\* where in the scanned lines the first line of object o is; 0 before then
FirstLineAt(o) ==
    LET at == {j \in DOMAIN hist.scanned :
                  LET l == hist.scanned[j]
                  IN l.k = "part" /\ l.obj = o /\ l.i = 1}
    IN IF at = {} THEN 0 ELSE CHOOSE j \in at : TRUE

\* an object whose unfinished prefix stays within the ceiling
Fits(o) == proc.wire[o].n - 1 <= MaxBufferSize

\* every overflow the framer reports is ErrBufferOverflow
OverflowIsErrBufferOverflow ==
    \A i \in DOMAIN trans.errChan :
        trans.errChan[i] = "overflow" =>
            ErrorsIs(ErrorOf(trans.errChan[i]), "ErrBufferOverflow")

\* after an overflow at line `at`, the first object that starts on a later
\* line, fits, and is followed to its end with no non-JSON line in between,
\* is emitted as a raw message
ResumesAfterOverflow ==
    \A k \in DOMAIN hist.overflowAt :
        LET at == hist.overflowAt[k]
            later == {o \in DOMAIN proc.wire : FirstLineAt(o) > at}
        IN \A o \in later :
              ( /\ \A p \in later : FirstLineAt(o) <= FirstLineAt(p)
                /\ Fits(o)
                /\ FullyScanned(o)
                /\ trans.readLoop \in {"scan", "done"}
                /\ \A j \in DOMAIN hist.scanned :
                      j > at => hist.scanned[j].k # "junk" )
              => \E j \in DOMAIN hist.rawLog : hist.rawLog[j] = LinesOf(o)

\* C17: when the unparsed input exceeds the ceiling the framer puts
\* ErrBufferOverflow on the error channel, resets its buffer and resumes on
\* the next line: the next complete JSON object that starts on a later line
\* is emitted as a raw message.
C17_OverflowSurfacedAndResumed ==
    /\ OverflowIsErrBufferOverflow
    /\ ResumesAfterOverflow

(***************************************************************************)
(* SpecRace: the owner of a bare transport writing from two goroutines     *)
(* while the transport is closed and the child exits.                      *)
(***************************************************************************)
NextRace ==
    \/ \E x \in Apps : TransportWrite(x) /\ UNCHANGED lib
    \/ \E x \in Apps : WriteBegin(x) /\ UNCHANGED lib
    \/ \E x \in Apps : WriteStdin(x) /\ UNCHANGED lib
    \/ TransportClose /\ UNCHANGED lib
    \/ ChildExit /\ UNCHANGED lib
    \/ WaitProcess /\ UNCHANGED lib
    \/ WaitProcessReport /\ UNCHANGED lib
    \/ WaitProcessClose /\ UNCHANGED lib
    \/ TakeErr /\ UNCHANGED lib

SpecRace == InitFramer /\ [][NextRace]_vars

\* C18: a Write that starts after Close has begun fails with "not
\* connected" and never reaches the closed stdin, whether or not the exit
\* waiter has flipped connected yet.
C18_WriteAfterCloseNotConnected ==
    \A x \in Apps :
        (thr[x].op = "Write" /\ thr[x].late) =>
            /\ thr[x].pc # "stdin"
            /\ thr[x].pc = "idle" => thr[x].err = ErrNotConnected

(***************************************************************************)
(* SpecTeardown: control requests pending on a connected client while the  *)
(* child exits or the application closes the client.  SpecTeardownLive     *)
(* adds the scheduling the runtime gives: every goroutine that can take a  *)
(* step does; a deadline or a caller's cancellation, the child's exit and  *)
(* the application's calls may never come.                                 *)
(***************************************************************************)
\* the steps of the library's goroutines that are about to run
NextTeardownFair ==
    \/ \E x \in Apps : Enroll(x) /\ UNCHANGED lib
    \/ \E x \in Apps : WriteBegin(x) /\ UNCHANGED lib
    \/ \E x \in Apps : WriteStdin(x) /\ UNCHANGED lib
    \/ \E x \in Apps : CloseTransport(x) /\ UNCHANGED lib
    \/ WaitProcess /\ UNCHANGED lib
    \/ WaitProcessReport /\ UNCHANGED lib
    \/ WaitProcessClose /\ UNCHANGED lib
    \/ ReadLoopEOF /\ UNCHANGED lib
    \/ RecvTakeErr /\ UNCHANGED lib
    \/ RecvForwardErr /\ UNCHANGED lib
    \/ RecvReturn /\ UNCHANGED lib
    \/ TakeError /\ UNCHANGED lib

NextTeardown ==
    \/ NextTeardownFair
    \/ \E x \in Apps : Interrupt(x) /\ UNCHANGED lib
    \/ \E x \in Apps : Close(x) /\ UNCHANGED lib
    \/ \E x \in Apps : CallTimeout(x) /\ UNCHANGED lib
    \/ ChildExit /\ UNCHANGED lib

SpecTeardown == InitConnected /\ [][NextTeardown]_vars

SpecTeardownLive == SpecTeardown /\ WF_vars(NextTeardownFair)

\* the client was closed, or the exit waiter has recorded the child's exit
TornDown == cli.closed \/ ~trans.connected

\* C19: on teardown every control request still pending is woken: a request
\* waiting for its response when the client is torn down stops waiting
\* without its deadline having to expire or its caller having to cancel.
C19_PendingWokenOnTeardown ==
    \A x \in Apps : (thr[x].pc = "wait" /\ TornDown) ~> (thr[x].pc # "wait")

(***************************************************************************)
(* SpecInbound: the child's control requests of every subtype, served by   *)
(* the receive loop with whatever callbacks the application registered.    *)
(***************************************************************************)
InboundSubtypes ==
    {"can_use_tool", "hook_callback", "mcp_message", "other", "malformed"}

\* the child prints a control request, numbered by its position on the wire;
\* "malformed" is one whose request member is not an object
ChildInboundRequest ==
    \E sub \in InboundSubtypes :
        ChildEmit([type |-> "control_request", rid |-> Len(proc.wire) + 1,
                   sub |-> sub, sid |-> 0])

\* SetCanUseToolCallback, SetMCPMessageCallback and AddHookCallback were
\* called or not before the stream started
InitInbound ==
    \E cut, mcp \in BOOLEAN, hooks \in 0..MaxHooks :
        InitConnectedWith([NewProtocolHandler EXCEPT
                              !.requestCounter = 1,
                              !.canUseToolCallback = cut,
                              !.mcpMessageCallback = mcp,
                              !.hookCallbacks = hooks], <<>>)

NextInbound ==
    \/ ChildInboundRequest /\ UNCHANGED lib
    \/ ReadLoopScan /\ UNCHANGED lib
    \/ ReadLoopEmit /\ UNCHANGED lib
    \/ RecvTake /\ UNCHANGED lib
    \/ RecvHandle /\ UNCHANGED lib
    \/ RecvCallback /\ UNCHANGED lib
    \/ RecvWriteBegin /\ UNCHANGED lib
    \/ RecvWriteStdin /\ UNCHANGED lib

SpecInbound == InitInbound /\ [][NextInbound]_vars

\* the control requests the child has printed, by position on the wire
InboundRequests ==
    {o \in DOMAIN proc.wire : proc.wire[o].msg.type = "control_request"}

\* the receive loop is inside HandleIncoming for the object at position o
Handling(o) ==
    /\ recv.pc \in {"handle", "callback", "write", "stdin"}
    /\ WholeObject(recv.raw)
    /\ recv.raw[1].obj = o

\* the control responses on the child's stdin
ResponsesOnStdin ==
    {i \in DOMAIN trans.stdin :
        /\ trans.stdin[i].by = "loop"
        /\ trans.stdin[i].type = "control_response"
        /\ trans.stdin[i].part = "body"}

ResponsesTo(o) ==
    {i \in ResponsesOnStdin : trans.stdin[i].id = proc.wire[o].msg.rid}

\* HandleIncoming has returned for the object at position o
Served(o) ==
    /\ \E k \in DOMAIN hist.handled : hist.handled[k] = o
    /\ ~Handling(o)

\* C11: every inbound control request gets exactly one control response,
\* carrying the request's own request id: one response once the handler has
\* returned, none before the handler started, never two, and no response
\* with an id that is not a request's.
C11_OneResponsePerRequest ==
    /\ \A o \in InboundRequests :
          /\ Cardinality(ResponsesTo(o)) <= 1
          /\ Served(o) => Cardinality(ResponsesTo(o)) = 1
          /\ (~Served(o) /\ ~Handling(o)) => ResponsesTo(o) = {}
    /\ \A i \in ResponsesOnStdin :
          \E o \in InboundRequests : i \in ResponsesTo(o)

\* two requests served, one of them by a callback and one without
C11_Witness ==
    /\ hand.canUseToolCallback
    /\ \E o1, o2 \in InboundRequests :
          /\ o1 < o2
          /\ Served(o1) /\ Served(o2)
          /\ proc.wire[o1].msg.sub = "can_use_tool"
          /\ proc.wire[o2].msg.sub = "other"
          /\ \E i \in ResponsesTo(o1) : trans.stdin[i].text = "deny"

\* C12: a failed callback is an error response, never a loop failure: when
\* a callback returned an error, or an mcp_message came with no MCP callback
\* registered, the request's response has subtype error and carries the
\* error's text; HandleIncoming returned nil, so the receive loop put
\* nothing on the client's error channel and goes on receiving.
C12_CallbackErrorIsErrorResponse ==
    /\ \A f \in hist.failed :
          Served(f.o) =>
             \E i \in ResponsesTo(f.o) :
                /\ trans.stdin[i].sub = "error"
                /\ trans.stdin[i].text = f.text
    /\ hist.failed # {} =>
          /\ recv.pc \notin {"off", "fwdErr"}
          /\ cli.errChan = <<>>

\* a callback failed on one request, an mcp_message found no callback, and
\* the loop served both
C12_Witness ==
    \E f1, f2 \in hist.failed :
        /\ f1.o < f2.o
        /\ f1.text = CallbackError
        /\ f2.text = NoMCPCallback
        /\ Served(f1.o) /\ Served(f2.o)
        /\ recv.pc = "select"

(***************************************************************************)
(* SpecHooks: Send and SendToolResult on a client whose options register   *)
(* UserPromptSubmit hooks.                                                 *)
(***************************************************************************)
HookEntries == [applies : BOOLEAN]

\* registerHooks: the entries of opts.Hooks.UserPromptSubmit, in their order
InitHooks ==
    \E n \in 0..MaxHooks :
        \E entries \in [1..n -> HookEntries] :
            InitConnectedWith([NewProtocolHandler EXCEPT !.requestCounter = 1],
                              entries)

NextHooks ==
    \/ \E x \in Apps : Send(x) /\ UNCHANGED lib
    \/ \E x \in Apps : SendToolResult(x) /\ UNCHANGED lib
    \/ \E x \in Apps : WriteBegin(x) /\ UNCHANGED lib
    \/ \E x \in Apps : WriteStdin(x) /\ UNCHANGED lib

SpecHooks == InitHooks /\ [][NextHooks]_vars

\* the entries of the chain that apply to the input
Applying == {i \in DOMAIN cli.hooks : cli.hooks[i].applies}

\* C13: hook handlers run in registration order, none skipped; the first
\* handler whose output has continue=false ends the chain: it is the last
\* one invoked and its own output is the result; when no handler is
\* registered or every handler continues, every applying handler has run
\* and the result is the manager's continue=true.
C13_ChainStopsAtFirstFalse ==
    \A x \in Apps :
        LET r == thr[x].hook
            inv == r.invoked
        IN r.ran =>
              /\ \A k, l \in DOMAIN inv : k < l => inv[k].i < inv[l].i
              /\ \A k \in DOMAIN inv :
                    /\ inv[k].i \in Applying
                    /\ \A j \in Applying :
                          j < inv[k].i => \E m \in 1..(k - 1) : inv[m].i = j
                    /\ inv[k].out = "stop" =>
                          /\ k = Len(inv)
                          /\ ~r.continue
                          /\ r.from = inv[k].i
              /\ (\A k \in DOMAIN inv : inv[k].out = "continue") =>
                    /\ r.continue
                    /\ r.from = 0
                    /\ {inv[k].i : k \in DOMAIN inv} = Applying

\* three handlers apply: the first continued, the second returned
\* continue=false and is the result, the third was never invoked
C13_Witness ==
    \E x \in Apps :
        /\ Applying = {1, 2, 3}
        /\ thr[x].hook.ran
        /\ thr[x].hook.invoked =
              <<[i |-> 1, out |-> "continue"], [i |-> 2, out |-> "stop"]>>
        /\ thr[x].hook.from = 2

\* C14: Send runs the UserPromptSubmit chain before it writes: a Send whose
\* chain returned continue=false has returned the "blocked by hook" error
\* without entering Transport.Write, and a Send that is writing, or has
\* written its user message, ran the chain and got continue=true.
C14_BlockedSendWritesNothing ==
    \A x \in Apps :
        LET r == thr[x].hook
        IN /\ (r.ran /\ ~r.err /\ ~r.continue) =>
                 /\ thr[x].pc = "idle"
                 /\ thr[x].how = "refused"
                 /\ thr[x].err = BlockedByHook
                 /\ thr[x].wcalls = <<>>
                 /\ x \notin trans.muR
           /\ (thr[x].op = "Send" /\ thr[x].how \notin {"refused"}) =>
                 /\ r.ran
                 /\ r.continue
           /\ (thr[x].op = "Send" /\ thr[x].calls = 0) =>
                 \A i \in DOMAIN trans.stdin :
                     trans.stdin[i].by = x => (r.ran /\ r.continue)

\* one goroutine's Send was blocked by the second hook and wrote nothing,
\* the other's passed both hooks and its user message is on the stream
C14_Witness ==
    \E x, y \in Apps :
        /\ thr[x].op = "Send" /\ thr[x].calls = 1
        /\ thr[x].err = BlockedByHook
        /\ thr[x].hook.from = 2
        /\ \A i \in DOMAIN trans.stdin : trans.stdin[i].by # x
        /\ thr[y].op = "Send" /\ thr[y].how = "write" /\ thr[y].err = <<>>
        /\ Len(thr[y].hook.invoked) = 2
        /\ \E i \in DOMAIN trans.stdin :
              trans.stdin[i].by = y /\ trans.stdin[i].type = "user"

(***************************************************************************)
(* SpecPermission: permission.Manager on its own.  A rule is the tool-name *)
(* pattern it was added with, its behavior and its description; a result   *)
(* is the verdict, its message and where it came from.                     *)
(***************************************************************************)
Modes == {"default", "acceptEdits", "plan", "bypassPermissions"}

\* an edit tool, a read-only tool and one that is neither
Tools == {"Edit", "Read", "Bash"}

\* the patterns rules are added with: one tool's name, or every tool
Patterns == {"Bash", ".*"}

Behaviors == {"allow", "deny", "ask"}

Rules == [pattern : Patterns, behavior : Behaviors, content : {"first", "second"}]

\* NewManager(mode)
NewManager(mode) == [mode |-> mode, rules |-> <<>>, canUseTool |-> FALSE]

\* Rule.matches: the compiled pattern finds a match in the tool name
Matches(rule, tool) == rule.pattern = ".*" \/ rule.pattern = tool

\* "Denied by rule: " + rule.RuleContent
DeniedByRule(rule) == [text |-> "Denied by rule: ", content |-> rule.content]

NoMessage == [text |-> "", content |-> ""]

PlanMessage ==
    [text |-> "Plan mode: write operations not allowed", content |-> ""]

\* from is the step that gave the verdict, by the rule's position in the
\* table when the step is the rule table
Result(allow, message, from, by) ==
    [allow |-> allow, message |-> message, err |-> FALSE,
     from |-> from, by |-> by]

RECURSIVE EvaluateRules(_, _, _)
\* for _, rule := range rules: allow and deny return; the break of the ask
\* case leaves the switch, and the loop goes on with the next rule
EvaluateRules(rules, tool, i) ==
    IF i > Len(rules) THEN <<>>
    ELSE IF ~Matches(rules[i], tool) THEN EvaluateRules(rules, tool, i + 1)
    ELSE IF rules[i].behavior = "allow" THEN <<Result(TRUE, NoMessage, "rule", i)>>
    ELSE IF rules[i].behavior = "deny"
    THEN <<Result(FALSE, DeniedByRule(rules[i]), "rule", i)>>
    ELSE EvaluateRules(rules, tool, i + 1)

isEditTool(tool) == tool = "Edit"

isReadOnlyTool(tool) == tool = "Read"

\* what the application's callback can answer
CallbackAnswers ==
    { Result(TRUE, NoMessage, "callback", 0),
      Result(FALSE, [text |-> "no", content |-> ""], "callback", 0),
      [Result(FALSE, NoMessage, "callback", 0) EXCEPT !.err = TRUE] }

\* Manager.Evaluate; answer is what the callback returns if it is called
ManagerEvaluate(m, tool, answer) ==
    IF m.mode = "bypassPermissions" THEN Result(TRUE, NoMessage, "bypass", 0)
    ELSE LET byRule == EvaluateRules(m.rules, tool, 1)
         IN IF byRule # <<>> THEN byRule[1]
            ELSE IF m.canUseTool THEN answer
            ELSE IF m.mode = "acceptEdits" /\ isEditTool(tool)
            THEN Result(TRUE, NoMessage, "mode", 0)
            ELSE IF m.mode = "plan"
            THEN IF isReadOnlyTool(tool) THEN Result(TRUE, NoMessage, "mode", 0)
                 ELSE Result(FALSE, PlanMessage, "mode", 0)
            ELSE Result(TRUE, NoMessage, "default", 0)

\* Manager.AddRule
AddRule ==
    /\ Len(lib.perm.rules) < MaxRules
    /\ \E rule \in Rules :
          lib' = [lib EXCEPT !.perm.rules = Append(@, rule)]
    /\ UNCHANGED <<proc, trans, hand, cli, recv, thr, hist>>

\* Manager.SetCanUseToolCallback
SetCanUseToolCallback ==
    /\ ~lib.perm.canUseTool
    /\ lib' = [lib EXCEPT !.perm.canUseTool = TRUE]
    /\ UNCHANGED <<proc, trans, hand, cli, recv, thr, hist>>

\* Manager.Evaluate, called by the application; the state keeps the call
\* with the manager it saw
Evaluate ==
    /\ \E tool \in Tools, answer \in CallbackAnswers :
          lib' = [lib EXCEPT !.result =
                     <<[tool |-> tool, seen |-> lib.perm,
                        result |-> ManagerEvaluate(lib.perm, tool, answer)]>>]
    /\ UNCHANGED <<proc, trans, hand, cli, recv, thr, hist>>

InitPermission ==
    /\ proc = ProcNone
    /\ trans = NewSubprocessTransport
    /\ InitNoClient
    /\ hist = HistEmpty
    /\ \E mode \in Modes : lib = [LibUnused EXCEPT !.perm = NewManager(mode)]

NextPermission ==
    \/ AddRule
    \/ SetCanUseToolCallback
    \/ Evaluate

SpecPermission == InitPermission /\ [][NextPermission]_vars

\* the first rule, in insertion order, that matches the tool; 0 if none
FirstMatch(rules, tool) ==
    LET hits == {i \in DOMAIN rules : Matches(rules[i], tool)}
    IN IF hits = {} THEN 0 ELSE CHOOSE i \in hits : \A j \in hits : i <= j

\* C15: outside bypassPermissions the first rule in insertion order that
\* matches the tool decides the rule table: allow gives allow, deny gives
\* deny with that rule's description as message, and ask hands the request
\* to the callback step, so that no rule after it gives the verdict.
C15_FirstMatchingRuleDecides ==
    \A k \in DOMAIN lib.result :
        LET e == lib.result[k]
            first == FirstMatch(e.seen.rules, e.tool)
        IN (e.seen.mode # "bypassPermissions" /\ first # 0) =>
              LET rule == e.seen.rules[first]
              IN /\ rule.behavior = "allow" =>
                       e.result.allow /\ e.result.by = first
                 /\ rule.behavior = "deny" =>
                       /\ ~e.result.allow
                       /\ e.result.by = first
                       /\ e.result.message.content = rule.content
                 /\ rule.behavior = "ask" =>
                       e.result.from # "rule"

(***************************************************************************)
(* SpecQuery: the one-shot Query after t.Connect and t.EndInput: its       *)
(* collecting loop over the transport's channels, the child printing       *)
(* one-line messages and exiting.                                          *)
(***************************************************************************)
\* the child prints a message; "malformed" is one whose members do not fit
\* the message type, and stream_event a type ParseMessage has no variant for
ChildQueryMessage ==
    \E type \in {"assistant", "system", "user", "result", "stream_event"},
       sub \in {"", "malformed"} :
        ChildEmit([PlainMsg(type) EXCEPT !.sub = sub])

\* ParseMessage fails: no type, or members that do not unmarshal
ParseFails(msg) == msg.type = "" \/ msg.sub = "malformed"

\* result.Messages = append(result.Messages, m), at the front instead
QueryCollectFront(messages, o) == <<o>> \o messages

\* result.Messages = append(result.Messages, m)
QueryCollect(messages, o) == Append(messages, o)

\* return nil, err
QueryFails(q, how, err) ==
    [q EXCEPT !.pc = "returned", !.how = how, !.err = err, !.nil = TRUE]

\* return result, nil
QueryReturns(q, how) == [q EXCEPT !.pc = "returned", !.how = how]

\* the deferred t.Close() of a returning Query
QueryDeferredClose(tr) ==
    /\ trans' = TransportCloseBody(tr)
    /\ proc' = Killed(proc)

\* case rawMsg, ok := <-t.Messages() with ok true
QueryTakeMessage ==
    /\ lib.query.pc = "select"
    /\ trans.msgChan # <<>>
    /\ trans.muR = {}
    /\ LET raw == Receive(trans.msgChan).val
           tr == [trans EXCEPT !.msgChan = Receive(@).rest]
           msg == MessageOf(raw)
           q == lib.query
       IN IF ParseFails(msg)
          THEN /\ lib' = [lib EXCEPT !.query =
                             QueryFails(q, "parse",
                                 <<SDKError("parse"), Sentinel("ErrMessageParse")>>)]
               /\ QueryDeferredClose(tr)
          ELSE IF msg.type \in {"assistant", "system"}
          THEN /\ lib' = [lib EXCEPT !.query.messages =
                                         QueryCollect(@, raw[1].obj)]
               /\ trans' = tr
               /\ UNCHANGED proc
          ELSE IF msg.type = "result"
          THEN /\ lib' = [lib EXCEPT !.query =
                             QueryReturns([q EXCEPT !.result = raw[1].obj],
                                          "result")]
               /\ QueryDeferredClose(tr)
          ELSE /\ trans' = tr
               /\ UNCHANGED <<lib, proc>>
    /\ UNCHANGED <<hand, cli, recv, thr, hist>>

\* case rawMsg, ok := <-t.Messages() with ok false
QueryChannelClosed ==
    /\ lib.query.pc = "select"
    /\ trans.msgChan = <<>>
    /\ trans.msgChanClosed
    /\ trans.muR = {}
    /\ lib' = [lib EXCEPT !.query =
                  IF @.result = 0
                  THEN QueryFails(@, "closed",
                           <<SDKError("receive"), Sentinel("ErrProcessExited")>>)
                  ELSE QueryReturns(@, "closed")]
    /\ QueryDeferredClose(trans)
    /\ UNCHANGED <<hand, cli, recv, thr, hist>>

\* case err := <-t.Errors() with a non-nil error
QueryTakeError ==
    /\ lib.query.pc = "select"
    /\ trans.errChan # <<>>
    /\ trans.muR = {}
    /\ lib' = [lib EXCEPT !.query =
                  QueryFails(@, "error",
                      <<SDKError("receive")>> \o ErrorOf(Head(trans.errChan)))]
    /\ QueryDeferredClose([trans EXCEPT !.errChan = Tail(@)])
    /\ UNCHANGED <<hand, cli, recv, thr, hist>>

\* case <-ctx.Done()
QueryCanceled ==
    /\ lib.query.pc = "select"
    /\ trans.muR = {}
    /\ lib' = [lib EXCEPT !.query =
                  QueryFails(@, "canceled", <<Sentinel("context.Canceled")>>)]
    /\ QueryDeferredClose(trans)
    /\ UNCHANGED <<hand, cli, recv, thr, hist>>

\* Query after t.Connect(ctx) and t.EndInput() succeeded
InitQuery ==
    /\ proc = ProcStarted
    /\ trans = [TransportConnected EXCEPT !.stdinClosed = TRUE]
    /\ InitNoClient
    /\ hist = HistEmpty
    /\ lib = [LibUnused EXCEPT !.query.pc = "select"]

NextQuery ==
    \/ ChildQueryMessage /\ UNCHANGED lib
    \/ ChildExit /\ UNCHANGED lib
    \/ ReadLoopScan /\ UNCHANGED lib
    \/ ReadLoopEmit /\ UNCHANGED lib
    \/ ReadLoopEOF /\ UNCHANGED lib
    \/ ReadLoopReadFails /\ UNCHANGED lib
    \/ ReadLoopReport /\ UNCHANGED lib
    \/ WaitProcess /\ UNCHANGED lib
    \/ WaitProcessReport /\ UNCHANGED lib
    \/ WaitProcessClose /\ UNCHANGED lib
    \/ QueryTakeMessage
    \/ QueryChannelClosed
    \/ QueryTakeError
    \/ QueryCanceled

SpecQuery == InitQuery /\ [][NextQuery]_vars

\* the positions before `end` of the messages of the given types, ascending
RECURSIVE WireBefore(_, _)
WireBefore(end, types) ==
    IF end <= 1 THEN <<>>
    ELSE LET rest == WireBefore(end - 1, types)
         IN IF proc.wire[end - 1].msg.type \in types
            THEN Append(rest, end - 1) ELSE rest

\* C20: a Query that returns a result returns the first result message the
\* child emitted, with the assistant and system messages emitted before it,
\* in the child's order and nothing else; a Query that finds the message
\* channel closed before any result message returns an error and no result.
C20_QueryCollectsUpToFirstResult ==
    LET q == lib.query
    IN /\ (q.pc = "returned" /\ ~q.nil) =>
             /\ q.err = <<>>
             /\ q.result \in DOMAIN proc.wire
             /\ proc.wire[q.result].msg.type = "result"
             /\ WireBefore(q.result, {"result"}) = <<>>
             /\ q.messages = WireBefore(q.result, {"assistant", "system"})
       /\ (q.pc = "returned" /\ q.how = "closed") =>
             /\ q.nil
             /\ ErrorsIs(q.err, "ErrProcessExited")
       /\ q.pc = "select" =>
             /\ q.result = 0
             /\ \A k \in DOMAIN q.messages :
                   proc.wire[q.messages[k]].msg.type \in {"assistant", "system"}

\* an assistant and a system message collected in order, then the result
C20_Witness ==
    /\ lib.query.pc = "returned"
    /\ lib.query.how = "result"
    /\ lib.query.messages = <<1, 2>>
    /\ lib.query.result = 3
    /\ proc.wire[1].msg.type = "assistant"
    /\ proc.wire[2].msg.type = "system"

\* goroutine x is inside SendControlRequest, its request enrolled
InControlRequest(x) ==
    /\ thr[x].op \in {"Connect", "Interrupt", "RewindFiles"}
    /\ thr[x].pc \in {"write", "stdin", "wait"}

\* C29: a request id is in the pending table from before its request is
\* written until SendControlRequest returns, and absent once the call has
\* returned, by whatever path (reply, timeout, cancellation, write failure):
\* the table holds exactly the entries of the calls in progress.
C29_PendingTableHoldsLiveCalls ==
    /\ \A x \in Apps :
          InControlRequest(x) =>
              [id |-> thr[x].id, ch |-> x] \in hand.pendingRequests
    /\ \A e \in hand.pendingRequests :
          InControlRequest(e.ch) /\ thr[e.ch].id = e.id

\* an Interrupt whose write failed has returned and the table is empty
C29_Witness ==
    \E x \in Apps :
        /\ thr[x].pc = "idle"
        /\ thr[x].op = "Interrupt"
        /\ thr[x].how = "write"
        /\ thr[x].err # <<>>
        /\ thr[x].id # 0
        /\ hand.pendingRequests = {}

(***************************************************************************)
(* SpecRetry: WithRetry with any configuration, around a function that     *)
(* returns any error, under a context that may be cancelled at any time.   *)
(***************************************************************************)
\* what fn returns: nil, the two sentinels IsRetryable knows, an error
\* that is not retryable, an unflagged SDKError around a rate limit, and
\* NewRetryableError without and with a RetryAfter
FnErrors ==
    {<<>>,
     <<Sentinel("ErrRateLimit")>>,
     <<Errorf("call"), Sentinel("ErrControlTimeout")>>,
     <<Errorf("boom")>>,
     <<SDKError("query"), Sentinel("ErrRateLimit")>>,
     <<NewRetryableError("api", 0), Errorf("busy")>>,
     <<NewRetryableError("api", MaxRetryAfter), Errorf("busy")>>}

\* the configurations a caller passes
RetryConfigs ==
    [MaxRetries : 0..MaxMaxRetries, InitialBackoff : {1, 4}, MaxBackoff : {6},
     BackoffFactor : {3, 4}, Jitter : BOOLEAN]

\* ctx.Err() of a cancelled context
CtxErr == <<Sentinel("context.Canceled")>>

\* &SDKError{Op: "retry", Err: nil, Details: "max retries exceeded"}
RetryErrorBare(lastErr) == <<SDKError("retry")>>

\* &SDKError{Op: "retry", Err: lastErr, Details: "max retries exceeded"}
RetryError(lastErr) == <<SDKError("retry")>> \o lastErr

\* time.Duration(float64(d) + float64(d)*0.25*(rand.Float64()*2 - 1)): the
\* durations in [0.75 d, 1.25 d), truncated
Jittered(d) ==
    IF d = 0 THEN {0} ELSE ((3 * d) \div 4)..(((5 * d + 3) \div 4) - 1)

\* waitDuration
WaitDurations(config, backoff) ==
    IF config.Jitter THEN Jittered(backoff) ELSE {backoff}

\* backoff = time.Duration(float64(backoff) * config.BackoffFactor), capped
NextBackoff(config, backoff) ==
    LET next == (backoff * config.BackoffFactor) \div 2
    IN IF next > config.MaxBackoff THEN config.MaxBackoff ELSE next

\* what a select on ctx.Done() and time.After(w) finds on entry: a case that
\* is ready is taken at once, otherwise the goroutine sleeps
SelectEntry(ctxDone, w) ==
    IF ctxDone THEN (IF w = 0 THEN {"done", "timer"} ELSE {"done"}) ELSE {""}

\* a select that takes the timer case whatever woke it
WokenByTimer(wake) == "timer"

\* the case of the select the sleeping goroutine was woken for
WokenBy(wake) == wake

\* return err
RetryReturns(r, err) == [r EXCEPT !.pc = "returned", !.ret = err]

\* one iteration of the loop from fn(ctx) to the select
RetryCall ==
    /\ lib.retry.pc = "call"
    /\ \E err \in FnErrors :
          LET r == [lib.retry EXCEPT !.calls = @ + 1, !.errs = Append(@, err),
                                    !.lastErr = IF err = <<>> THEN @ ELSE err]
          IN IF err = <<>> \/ ~IsRetryable(err)
             THEN lib' = [lib EXCEPT !.retry = RetryReturns(r, err)]
             ELSE IF r.attempt >= r.config.MaxRetries
             THEN lib' = [lib EXCEPT !.retry =
                             RetryReturns(r, RetryError(r.lastErr))]
             ELSE LET backoff == IF GetRetryAfter(err) > 0
                                 THEN GetRetryAfter(err) ELSE r.backoff
                  IN \E w \in WaitDurations(r.config, backoff) :
                       \E wake \in SelectEntry(r.ctxDone, w) :
                          lib' = [lib EXCEPT !.retry =
                                     [r EXCEPT !.pc = "sleep",
                                               !.backoff = backoff,
                                               !.waits = Append(@, w),
                                               !.wake = wake]]
    /\ UNCHANGED <<proc, trans, hand, cli, recv, thr, hist>>

\* time.After(waitDuration) fires while the goroutine sleeps in the select
RetryTimerFires ==
    /\ lib.retry.pc = "sleep"
    /\ lib.retry.wake = ""
    /\ lib' = [lib EXCEPT !.retry.wake = "timer"]
    /\ UNCHANGED <<proc, trans, hand, cli, recv, thr, hist>>

\* the caller cancels ctx; a goroutine asleep in the select is woken for
\* the ctx.Done() case
RetryCancel ==
    /\ lib.retry.pc \in {"call", "sleep"}
    /\ ~lib.retry.ctxDone
    /\ LET r == lib.retry
       IN lib' = [lib EXCEPT !.retry =
                     IF r.pc = "sleep" /\ r.wake = ""
                     THEN [r EXCEPT !.ctxDone = TRUE, !.wake = "done",
                                    !.asleepCancel = r.calls]
                     ELSE [r EXCEPT !.ctxDone = TRUE]]
    /\ UNCHANGED <<proc, trans, hand, cli, recv, thr, hist>>

\* the select returns: ctx.Err(), or the next backoff and the next attempt
RetryWake ==
    /\ lib.retry.pc = "sleep"
    /\ lib.retry.wake # ""
    /\ LET r == lib.retry
           next == [r EXCEPT !.backoff = NextBackoff(r.config, @),
                             !.attempt = @ + 1, !.wake = ""]
       IN lib' = [lib EXCEPT !.retry =
                     IF WokenBy(r.wake) = "done" THEN RetryReturns(r, CtxErr)
                     ELSE IF next.attempt <= r.config.MaxRetries
                     THEN [next EXCEPT !.pc = "call"]
                     ELSE RetryReturns(next, RetryError(r.lastErr))]
    /\ UNCHANGED <<proc, trans, hand, cli, recv, thr, hist>>

\* WithRetry(ctx, config, fn) entered, with config nil or not
InitRetry ==
    /\ proc = ProcNone
    /\ trans = NewSubprocessTransport
    /\ InitNoClient
    /\ hist = HistEmpty
    /\ \E nilConfig \in BOOLEAN, given \in RetryConfigs :
          LET config == IF nilConfig THEN DefaultRetryConfig ELSE given
          IN lib = [LibUnused EXCEPT !.retry =
                       [RetryOff EXCEPT !.pc = "call",
                                        !.nilConfig = nilConfig,
                                        !.config = config,
                                        !.backoff = config.InitialBackoff]]

NextRetry ==
    \/ RetryCall
    \/ RetryTimerFires
    \/ RetryCancel
    \/ RetryWake

SpecRetry == InitRetry /\ [][NextRetry]_vars

\* fn returns, timers fire and a woken goroutine runs
SpecRetryLive ==
    /\ SpecRetry
    /\ WF_vars(RetryCall)
    /\ WF_vars(RetryTimerFires)
    /\ WF_vars(RetryWake)

\* every invocation so far failed with an error IsRetryable accepts
AllRetryable(errs) ==
    \A k \in DOMAIN errs : errs[k] # <<>> /\ IsRetryable(errs[k])

\* C21 (safety part): fn is invoked at most MaxRetries+1 times, and a
\* WithRetry that returned after nothing but retryable failures, its context
\* not cancelled, made exactly MaxRetries+1 invocations and returned a retry
\* error wrapping the last failure.
RetryBounded ==
    LET r == lib.retry
    IN /\ r.calls <= r.config.MaxRetries + 1
       /\ (r.pc = "returned" /\ AllRetryable(r.errs) /\ r.ret # CtxErr) =>
             /\ r.calls = r.config.MaxRetries + 1
             /\ r.ret = <<SDKError("retry")>> \o r.errs[Len(r.errs)]

C22_DefaultAtMostThreeAttempts ==
    lib.retry.nilConfig => lib.retry.calls <= 3

\* an error the retry policy names retryable: a rate limit, a control
\* timeout, or an SDKError flagged retryable
NamedRetryable(err) ==
    \/ ErrorsIs(err, "ErrRateLimit")
    \/ ErrorsIs(err, "ErrControlTimeout")
    \/ \E i \in DOMAIN err : err[i].t = "SDKError" /\ err[i].retryable

\* C23: fn is invoked again only after an error named retryable; any other
\* error ends the loop at once: it is the last invocation, it is returned
\* unchanged, and no wait follows it.
C23_OnlyRetryableRetried ==
    LET r == lib.retry
    IN \A k \in DOMAIN r.errs :
          /\ k < Len(r.errs) => NamedRetryable(r.errs[k])
          /\ (r.errs[k] # <<>> /\ ~NamedRetryable(r.errs[k])) =>
                /\ k = Len(r.errs)
                /\ r.pc = "returned"
                /\ r.ret = r.errs[k]
                /\ Len(r.waits) = k - 1

\* a retried rate limit, then an error that is not retryable, returned
C23_Witness ==
    /\ lib.retry.pc = "returned"
    /\ lib.retry.errs = <<<<Sentinel("ErrRateLimit")>>, <<Errorf("boom")>>>>
    /\ lib.retry.ret = <<Errorf("boom")>>
    /\ Len(lib.retry.waits) = 1

\* C24: when the context is cancelled while WithRetry sleeps between
\* attempts, WithRetry returns the context's error and fn is not invoked
\* again.
C24_CancelDuringSleepEndsLoop ==
    LET r == lib.retry
    IN r.asleepCancel > 0 =>
          /\ r.calls = r.asleepCancel
          /\ r.pc \in {"sleep", "returned"}
          /\ r.pc = "returned" => r.ret = CtxErr

\* cancelled in the sleep after the first failure of three allowed attempts
C24_Witness ==
    /\ lib.retry.pc = "returned"
    /\ lib.retry.asleepCancel = 1
    /\ lib.retry.config.MaxRetries = 2
    /\ lib.retry.ret = CtxErr

\* the backoff before attempt k+1 when no error carried a RetryAfter
RECURSIVE Schedule(_, _)
Schedule(config, k) ==
    IF k <= 1 THEN config.InitialBackoff
    ELSE NextBackoff(config, Schedule(config, k - 1))

\* C25: the wait after a failure that carries retry_after r > 0 is r, and
\* the waits after the other failures follow the exponential schedule as if
\* no override had occurred.
C25_RetryAfterOverridesOneAttempt ==
    LET r == lib.retry
    IN \A k \in DOMAIN r.waits :
          LET base == IF GetRetryAfter(r.errs[k]) > 0
                      THEN GetRetryAfter(r.errs[k])
                      ELSE Schedule(r.config, k)
          IN r.waits[k] \in WaitDurations(r.config, base)

(***************************************************************************)
(* SpecMcp: the MCP client over a transport whose server sends any         *)
(* message: Connect with its handshake, ListTools from two goroutines, the *)
(* receive loop, Close.                                                    *)
(***************************************************************************)
\* the id of a message as json decoding leaves it: a json.Number, a
\* float64 (with or without a fractional part) or a string, of the integer n
McpIds ==
    [enc : {"number", "float", "string"}, n : 1..MaxMcpId, frac : {FALSE}]
    \cup [enc : {"float"}, n : 1..MaxMcpId, frac : {TRUE}]

\* a message without an id
McpNoId == [enc |-> "nil", n |-> 0, frac |-> FALSE]

\* the int64 that nextID returns, as the ID of a request
McpInt64(n) == [enc |-> "int64", n |-> n, frac |-> FALSE]

\* the messages a server sends: with or without id and method, carrying a
\* result object, a result of another type, or an error
McpMessages ==
    [id : McpIds \cup {McpNoId}, method : {"", "notifications/message"},
     body : {"result", "badresult", "error"}]

\* mcp.normalizeID: a json.Number that is an integer and every float64
\* become an int64 (a float64 is truncated), everything else stays itself
normalizeID(id) ==
    IF id.enc \in {"number", "float"} THEN McpInt64(id.n) ELSE id

\* a Close that leaves the transport as it is
McpTransportLeftOpen(tr) == tr

\* t.Close()
McpTransportClose(tr) == [tr EXCEPT !.connected = FALSE, !.closed = TRUE]

\* delete(c.pendingReqs, key)
McpDelete(pending, key) == {e \in pending : e.key # key}

\* Connect's error paths after the transport connected: c.transport.Close()
\* and the error returned
McpHandshakeFails(m, err) ==
    [m EXCEPT !.tr = McpTransportClose(@),
              !.th["conn"].pc = "returned", !.th["conn"].err = err]

\* a caller of request returns err; Connect's caller gives the handshake up
McpReturns(m, x, err) ==
    IF x = "conn" THEN McpHandshakeFails(m, err)
    ELSE [m EXCEPT !.th[x].pc = "returned", !.th[x].err = err]

\* c.nextID() and the enrolment that opens request
McpEnroll(m, x) ==
    LET id == m.reqID + 1
    IN [m EXCEPT !.reqID = id,
                 !.pendingReqs = McpDelete(@, normalizeID(McpInt64(id)))
                       \cup {[key |-> normalizeID(McpInt64(id)), who |-> x]},
                 !.th[x].pc = "send", !.th[x].id = id]

\* MCPClient.Connect up to the first Send of the handshake
McpConnect ==
    /\ lib.mcp.th["conn"].pc = "idle"
    /\ LET m == lib.mcp
       IN IF m.connected
          THEN lib' = [lib EXCEPT !.mcp.th["conn"] =
                          [@ EXCEPT !.pc = "returned",
                                    !.err = "already connected"]]
          ELSE \E ok \in BOOLEAN :
                 IF ok
                 THEN lib' = [lib EXCEPT !.mcp =
                                 McpEnroll([m EXCEPT !.tr.connected = TRUE,
                                                     !.tr.closed = FALSE,
                                                     !.loop = "run"], "conn")]
                 ELSE lib' = [lib EXCEPT !.mcp.th["conn"] =
                                 [@ EXCEPT !.pc = "returned",
                                           !.err = "transport connect failed"]]
    /\ UNCHANGED <<proc, trans, hand, cli, recv, thr, hist>>

\* MCPClient.ListTools up to the Send of its request
McpListTools(x) ==
    /\ x # "conn"
    /\ lib.mcp.th[x].pc = "idle"
    /\ lib.mcp.th["conn"].pc = "returned"
    /\ LET m == lib.mcp
       IN IF ~m.connected
          THEN lib' = [lib EXCEPT !.mcp.th[x] =
                          [@ EXCEPT !.pc = "returned", !.err = "not connected"]]
          ELSE lib' = [lib EXCEPT !.mcp = McpEnroll(m, x)]
    /\ UNCHANGED <<proc, trans, hand, cli, recv, thr, hist>>

\* c.transport.Send(msg) in request, and the removal when it fails
McpSend(x) ==
    /\ lib.mcp.th[x].pc = "send"
    /\ LET m == lib.mcp
           method == IF x = "conn" THEN "initialize" ELSE "tools/list"
       IN \E ok \in (IF m.tr.closed THEN {FALSE} ELSE BOOLEAN) :
             IF ok
             THEN lib' = [lib EXCEPT !.mcp =
                             [m EXCEPT !.tr.sent =
                                           Append(@, [method |-> method,
                                                      id |-> m.th[x].id]),
                                       !.th[x].pc = "wait"]]
             ELSE lib' = [lib EXCEPT !.mcp =
                             McpReturns(
                                 [m EXCEPT !.pendingReqs =
                                     McpDelete(@, normalizeID(
                                                      McpInt64(m.th[x].id)))],
                                 x, "send failed")]
    /\ UNCHANGED <<proc, trans, hand, cli, recv, thr, hist>>

\* case resp := <-respChan in request, and for Connect
\* parseInitializeResult
McpReply(x) ==
    /\ lib.mcp.th[x].pc = "wait"
    /\ lib.mcp.th[x].chan # <<>>
    /\ LET m == lib.mcp
           resp == Head(m.th[x].chan)
       IN lib' = [lib EXCEPT !.mcp =
                     IF resp.body = "error" THEN McpReturns(m, x, "RPC error")
                     ELSE IF resp.body = "badresult"
                     THEN McpReturns(m, x, "invalid result type")
                     ELSE IF x = "conn" THEN [m EXCEPT !.th[x].pc = "notify"]
                     ELSE [m EXCEPT !.th[x].pc = "returned"]]
    /\ UNCHANGED <<proc, trans, hand, cli, recv, thr, hist>>

\* case <-ctx.Done() in request
McpCancel(x) ==
    /\ lib.mcp.th[x].pc = "wait"
    /\ lib' = [lib EXCEPT !.mcp =
                  McpReturns(
                      [@ EXCEPT !.pendingReqs =
                          McpDelete(@, normalizeID(
                                           McpInt64(lib.mcp.th[x].id)))],
                      x, "context canceled")]
    /\ UNCHANGED <<proc, trans, hand, cli, recv, thr, hist>>

\* the notifications/initialized Send that ends initialize, and the
\* c.connected = true that ends Connect
McpNotify ==
    /\ lib.mcp.th["conn"].pc = "notify"
    /\ LET m == lib.mcp
       IN \E ok \in (IF m.tr.closed THEN {FALSE} ELSE BOOLEAN) :
             IF ok
             THEN lib' = [lib EXCEPT !.mcp =
                             [m EXCEPT !.tr.sent =
                                           Append(@,
                                               [method |->
                                                  "notifications/initialized",
                                                id |-> 0]),
                                       !.connected = TRUE,
                                       !.th["conn"].pc = "returned"]]
             ELSE lib' = [lib EXCEPT !.mcp =
                             McpHandshakeFails(m, "send failed")]
    /\ UNCHANGED <<proc, trans, hand, cli, recv, thr, hist>>

\* the server sends a message
McpServerMessage ==
    /\ lib.mcp.tr.connected
    /\ lib.mcp.tr.served < MaxMcpInbound
    /\ \E msg \in McpMessages :
          lib' = [lib EXCEPT !.mcp.tr.inbox = Append(@, msg),
                             !.mcp.tr.served = @ + 1]
    /\ UNCHANGED <<proc, trans, hand, cli, recv, thr, hist>>

\* one turn of receiveLoop with a message from c.transport.Receive()
McpReceive ==
    /\ lib.mcp.loop = "run"
    /\ ~lib.mcp.tr.closed
    /\ lib.mcp.tr.inbox # <<>>
    /\ LET m == lib.mcp
           msg == Head(m.tr.inbox)
           got == [m EXCEPT !.tr.inbox = Tail(@)]
           key == normalizeID(msg.id)
           found == {e \in m.pendingReqs : e.key = key}
       IN IF msg.id # McpNoId /\ msg.method = ""
          THEN lib' = [lib EXCEPT !.mcp =
                          [got EXCEPT
                              !.pendingReqs = McpDelete(@, key),
                              !.th = [x \in McpCallers |->
                                        IF \E e \in found : e.who = x
                                        THEN [@[x] EXCEPT !.chan = <<msg>>]
                                        ELSE @[x]],
                              !.handled =
                                  <<[msg |-> msg, pending |-> m.pendingReqs,
                                     woke |-> {e.who : e \in found},
                                     queued |-> FALSE]>>]]
          ELSE lib' = [lib EXCEPT !.mcp =
                          [got EXCEPT
                              !.msgChan = IF Len(@) < McpQueueCap
                                          THEN Append(@, msg) ELSE @,
                              !.handled =
                                  <<[msg |-> msg, pending |-> m.pendingReqs,
                                     woke |-> {},
                                     queued |-> Len(m.msgChan) < McpQueueCap]>>]]
    /\ UNCHANGED <<proc, trans, hand, cli, recv, thr, hist>>

\* receiveLoop returns: stopChan is closed, or Receive fails on a closed
\* transport
McpLoopReturns ==
    /\ lib.mcp.loop = "run"
    /\ lib.mcp.stopped \/ lib.mcp.tr.closed
    /\ lib' = [lib EXCEPT !.mcp.loop = "done"]
    /\ UNCHANGED <<proc, trans, hand, cli, recv, thr, hist>>

\* MCPClient.Close on a connected client
McpClose ==
    /\ lib.mcp.connected
    /\ lib' = [lib EXCEPT !.mcp.connected = FALSE,
                          !.mcp.stopped = TRUE,
                          !.mcp.tr = McpTransportClose(@)]
    /\ UNCHANGED <<proc, trans, hand, cli, recv, thr, hist>>

\* a client just made
InitMcp ==
    /\ proc = ProcNone
    /\ trans = NewSubprocessTransport
    /\ InitNoClient
    /\ hist = HistEmpty
    /\ lib = LibUnused

NextMcp ==
    \/ McpConnect
    \/ \E x \in McpCallers :
          \/ McpListTools(x)
          \/ McpSend(x)
          \/ McpReply(x)
          \/ McpCancel(x)
    \/ McpNotify
    \/ McpServerMessage
    \/ McpReceive
    \/ McpLoopReturns
    \/ McpClose

SpecMcp == InitMcp /\ [][NextMcp]_vars

\* the callers enrolled under the integer that the id encodes: a number, a
\* float without fractional part and a string of digits all encode it
EnrolledAs(pending, id) ==
    IF id.frac THEN {}
    ELSE {e.who : e \in {e \in pending : e.key = McpInt64(id.n)}}

\* C26: a message with an id and no method wakes exactly the caller
\* enrolled under the same id after normalization (number, float and string
\* of digits of one integer being the same id) and that caller receives the
\* message; a message with a method wakes nobody and goes to the event queue.
C26_ResponseWakesItsCaller ==
    \A k \in DOMAIN lib.mcp.handled :
        LET h == lib.mcp.handled[k]
        IN IF h.msg.method = ""
           THEN h.msg.id # McpNoId =>
                  /\ h.woke = EnrolledAs(h.pending, h.msg.id)
                  /\ \A x \in h.woke : lib.mcp.th[x].chan = <<h.msg>>
           ELSE h.woke = {} /\ h.queued

\* the handshake as Connect's caller has seen it so far
HandshakeSent == [k \in DOMAIN lib.mcp.tr.sent |-> lib.mcp.tr.sent[k].method]

\* C27: Connect sends initialize, waits for its response and only then
\* sends notifications/initialized; the client is connected only after all
\* of that succeeded, and after a failed handshake the transport is closed
\* and the client is not connected.
C27_HandshakeInOrder ==
    LET m == lib.mcp
        c == m.th["conn"]
        answered == c.chan # <<>> /\ Head(c.chan).body = "result"
    IN /\ Len(HandshakeSent) >= 1 => HandshakeSent[1] = "initialize"
       /\ (\E k \in DOMAIN HandshakeSent :
               HandshakeSent[k] = "notifications/initialized") =>
             /\ HandshakeSent[2] = "notifications/initialized"
             /\ answered
       /\ (m.connected \/ m.stopped) =>
             /\ Len(HandshakeSent) >= 2
             /\ c.pc = "returned" /\ c.err = ""
       /\ (c.pc = "returned" /\ c.err \notin {"", "transport connect failed"}) =>
             /\ m.tr.closed
             /\ ~m.connected

\* connected after initialize was answered and the notification was sent
C27_Witness ==
    /\ lib.mcp.connected
    /\ lib.mcp.th["conn"].pc = "returned"
    /\ Len(lib.mcp.tr.sent) = 2

(***************************************************************************)
(* SpecMatch: the hooks manager on its own: entries registered with and    *)
(* without a matcher, triggered for events with and without a tool name.   *)
(***************************************************************************)
\* the patterns entries are registered with: empty, a tool's name, and two
\* regular expressions
HookPatterns == {"", "Bash", "Edit|Write", ".*"}

\* input.ToolName for each event: a tool event names a tool, the other
\* events leave ToolName empty
HookInputs ==
    [event : {"PreToolUse"}, toolName : {"Bash", "Edit"}]
    \cup [event : {"UserPromptSubmit", "Stop", "Notification"},
          toolName : {""}]

\* strings.ContainsAny(pattern, ".*+?^${}[]|()\\")
hasRegexChars(pattern) == pattern \in {"Edit|Write", ".*"}

\* hooks.NewMatcher(pattern)
NewMatcher(pattern) ==
    [pattern |-> pattern,
     isExact |-> pattern # "" /\ ~hasRegexChars(pattern),
     regex |-> pattern # "" /\ hasRegexChars(pattern)]

\* regexp.MatchString for the patterns above: unanchored
MatchString(pattern, toolName) ==
    IF pattern = ".*" THEN TRUE ELSE toolName \in {"Edit", "Write"}

\* Matcher.Match
Match(m, toolName) ==
    IF m.pattern = "" THEN TRUE
    ELSE IF m.isExact THEN m.pattern = toolName
    ELSE IF m.regex THEN MatchString(m.pattern, toolName)
    ELSE FALSE

\* the entries a caller registers: Matcher nil or made by NewMatcher
MatcherEntries ==
    [nilMatcher : {TRUE}, matcher : {NewMatcher("")}]
    \cup [nilMatcher : {FALSE}, matcher : {NewMatcher(p) : p \in HookPatterns}]

\* entry.Matcher != nil && !entry.Matcher.Match(input.ToolName) is false
EntryApplies(entry, toolName) ==
    entry.nilMatcher \/ Match(entry.matcher, toolName)

\* Manager.Register
Register ==
    /\ Len(lib.hooks.entries) < MaxHooks
    /\ \E entry \in MatcherEntries :
          lib' = [lib EXCEPT !.hooks.entries = Append(@, entry)]
    /\ UNCHANGED <<proc, trans, hand, cli, recv, thr, hist>>

\* Manager.Trigger(ctx, event, input), every callback returning some output
TriggerEvent ==
    /\ \E input \in HookInputs :
          LET entries == [i \in DOMAIN lib.hooks.entries |->
                            [applies |-> EntryApplies(lib.hooks.entries[i],
                                                      input.toolName)]]
          IN \E outs \in OutsOf(entries) :
                lib' = [lib EXCEPT !.hooks.fired =
                           <<[input |-> input, entries |-> lib.hooks.entries,
                              out |-> Trigger(entries, outs)]>>]
    /\ UNCHANGED <<proc, trans, hand, cli, recv, thr, hist>>

InitMatch ==
    /\ proc = ProcNone
    /\ trans = NewSubprocessTransport
    /\ InitNoClient
    /\ hist = HistEmpty
    /\ lib = LibUnused

NextMatch ==
    \/ Register
    \/ TriggerEvent

SpecMatch == InitMatch /\ [][NextMatch]_vars

\* C28: for an event whose input has no tool name every registered entry
\* is run, whatever pattern its matcher has: in a chain in which every
\* handler continues, all entries were invoked.
C28_NoToolNameMatchesAll ==
    \A k \in DOMAIN lib.hooks.fired :
        LET f == lib.hooks.fired[k]
        IN (/\ f.input.toolName = ""
            /\ \A j \in DOMAIN f.out.invoked :
                  f.out.invoked[j].out = "continue") =>
              {f.out.invoked[j].i : j \in DOMAIN f.out.invoked}
                  = DOMAIN f.entries


(***************************************************************************)
(* The client's coarse lock c.mu and the calls that hold it.               *)
(***************************************************************************)
\* goroutine x holds c.mu, for reading (RLock) or for writing (Lock)
HoldsClientLock(x) == cli.muW = x \/ x \in cli.muR

\* goroutine x is inside t.stdin.Write or blocked in the select that waits
\* for a control response
InIO(x) == thr[x].pc \in {"stdin", "wait"}

\* C31: the client's coarse lock is never held across I/O: no goroutine
\* holds c.mu, for reading or writing, while it writes to the child's stdin
\* or waits for a control response, so that Close (which needs the write
\* lock) is never kept out by an in-flight Connect, Send, Interrupt or
\* RewindFiles.
C31_ClientLockNotHeldAcrossIO ==
    \A x \in Apps : InIO(x) => ~HoldsClientLock(x)


(***************************************************************************)
(* SpecExit: a bare transport whose child writes objects and exits (by     *)
(* itself or killed by Close): the framer and the exit waiter both send    *)
(* on t.errChan, the exit waiter closes it.  SpecExitLive adds the         *)
(* scheduling the runtime gives: the framer and the exit waiter run when   *)
(* they can; the child's output, the owner's Close and the owner's         *)
(* receives from the two channels may never come.                          *)
(***************************************************************************)
\* the steps of the transport's goroutines that are about to run
NextExitFair ==
    \/ ReadLoopScan /\ UNCHANGED lib
    \/ ReadLoopEmit /\ UNCHANGED lib
    \/ ReadLoopOverflow /\ UNCHANGED lib
    \/ ReadLoopEOF /\ UNCHANGED lib
    \/ ReadLoopReadFails /\ UNCHANGED lib
    \/ ReadLoopReport /\ UNCHANGED lib
    \/ WaitProcess /\ UNCHANGED lib
    \/ WaitProcessReport /\ UNCHANGED lib
    \/ WaitProcessClose /\ UNCHANGED lib

NextExit ==
    \/ NextExitFair
    \/ ChildStartObject /\ UNCHANGED lib
    \/ ChildNextPart /\ UNCHANGED lib
    \/ ChildExit /\ UNCHANGED lib
    \/ TransportClose /\ UNCHANGED lib
    \/ TakeRaw /\ UNCHANGED lib
    \/ TakeErr /\ UNCHANGED lib

SpecExit == InitFramer /\ [][NextExit]_vars

SpecExitLive == SpecExit /\ WF_vars(NextExitFair)

\* the exit waiter has sent its error on t.errChan
ExitErrorSent == trans.waitErr /\ trans.wait \in {"close", "done"}

\* nothing was sent on t.errChan after the exit error: the channel is first
\* in first out, so whatever it holds behind the exit error, or once the
\* exit error was taken, was sent later
ExitErrorIsLast ==
    ExitErrorSent =>
        \/ trans.errChan = <<>>
        \/ trans.errChan[Len(trans.errChan)] = "exited"

\* the framer did not send on t.errChan after close(t.errChan)
NoSendOnClosedErrChan == trans.readLoop # "panic"

\* C32: when the child exits the exit waiter publishes a final error on
\* t.errChan and then closes it: the exit error is the last item ever sent
\* on the channel, and no goroutine (the framer reporting an overflow or a
\* read error) sends on it after it was closed.
C32_ExitErrorLastThenClosed ==
    /\ ExitErrorIsLast
    /\ NoSendOnClosedErrChan


(***************************************************************************)
(* SpecConnect: Connect from its call to its return, the child printing    *)
(* messages that carry session ids and answering the initialize request    *)
(* once it has read it.  SpecConnectLive adds the scheduling the runtime   *)
(* gives: a goroutine of the library that can take a step does; the        *)
(* child's output and the control timeout may never come.                  *)
(***************************************************************************)
\* the initialize request is on the child's stdin, newline included
InitializeWritten ==
    \E i \in DOMAIN trans.stdin :
        /\ trans.stdin[i].id = 1
        /\ trans.stdin[i] = Newline(trans.stdin[i].by, "control_request", 1)

\* the child has answered the initialize request
InitializeAnswered ==
    \E o \in DOMAIN proc.wire : proc.wire[o].msg.type = "control_response"

\* the child answers the initialize request it has read, once
ChildAnswersInitialize ==
    /\ InitializeWritten
    /\ ~InitializeAnswered
    /\ ChildInitResponse

\* the steps of the library's goroutines that are about to run
NextConnectFair ==
    \/ \E x \in Apps : Enroll(x) /\ UNCHANGED lib
    \/ \E x \in Apps : WriteBegin(x) /\ UNCHANGED lib
    \/ \E x \in Apps : WriteStdin(x) /\ UNCHANGED lib
    \/ \E x \in Apps : CallReply(x) /\ UNCHANGED lib
    \/ \E x \in Apps : ConnectLoad(x) /\ UNCHANGED lib
    \/ \E x \in Apps : ConnectCAS(x) /\ UNCHANGED lib
    \/ \E x \in Apps : ConnectCloseTransport(x) /\ UNCHANGED lib
    \/ ReadLoopScan /\ UNCHANGED lib
    \/ ReadLoopEmit /\ UNCHANGED lib
    \/ RecvTake /\ UNCHANGED lib
    \/ RecvCAS /\ UNCHANGED lib
    \/ RecvHandle /\ UNCHANGED lib

NextConnect ==
    \/ NextConnectFair
    \/ \E x \in Apps : Connect(x) /\ UNCHANGED lib
    \/ \E x \in Apps : CallTimeout(x) /\ UNCHANGED lib
    \/ ChildSessionMessage /\ UNCHANGED lib
    \/ ChildAnswersInitialize /\ UNCHANGED lib

SpecConnect == InitClient /\ [][NextConnect]_vars

SpecConnectLive == SpecConnect /\ WF_vars(NextConnectFair)

\* goroutine x is in Connect, waiting for the initialize response
ConnectWaits(x) == thr[x].op = "Connect" /\ thr[x].pc = "wait"

\* goroutine x's Connect has returned
ConnectReturned(x) == thr[x].op = "Connect" /\ thr[x].pc = "idle"

\* C33: Connect cannot deadlock against its own receive loop: the receive
\* loop never needs the client lock Connect holds, so once the child has
\* answered the initialize request the response is routed to the waiting
\* call and Connect returns, whether or not the control timeout ever fires.
C33_ConnectReturnsOnceAnswered ==
    \A x \in Apps :
        (ConnectWaits(x) /\ InitializeAnswered) ~> ConnectReturned(x)

\* Connect holds c.mu and waits for the response the child has printed,
\* while the receive loop is recording the session id of an earlier message
C33_Witness ==
    \E x \in Apps :
        /\ ConnectWaits(x)
        /\ cli.muW = x
        /\ InitializeAnswered
        /\ recv.pc = "cas"


\* the framer goroutine has ended, by a return or by a panic, and its
\* deferred close(t.msgChan) ran
FramerDone == trans.readLoop \in {"done", "panic"} /\ trans.msgChanClosed

\* C34: the transport's Close force-cancels the framer: after Close the
\* framer goroutine eventually terminates and the raw message channel is
\* closed, even if the framer was blocked delivering a message to a full
\* channel that nobody drains.
C34_CloseStopsFramer == trans.closed ~> FramerDone


(***************************************************************************)
(* SpecClose: a connected client whose child prints messages for the       *)
(* application while the application closes the client.                    *)
(***************************************************************************)
NextClose ==
    \/ \E x \in Apps : Close(x) /\ UNCHANGED lib
    \/ \E x \in Apps : CloseTransport(x) /\ UNCHANGED lib
    \/ ChildMessage /\ UNCHANGED lib
    \/ ReadLoopScan /\ UNCHANGED lib
    \/ ReadLoopEmit /\ UNCHANGED lib
    \/ ReadLoopEOF /\ UNCHANGED lib
    \/ RecvTake /\ UNCHANGED lib
    \/ RecvHandle /\ UNCHANGED lib
    \/ RecvReturn /\ UNCHANGED lib
    \/ TakeMessage /\ UNCHANGED lib

SpecClose == InitConnected /\ [][NextClose]_vars

\* C35: no goroutine sends on the protocol handler's message channel after
\* Client.Close has closed it: in every interleaving of Close with a receive
\* loop that is in the middle of HandleIncoming, no send on a closed channel
\* occurs.
C35_NoSendOnClosedHandlerChannel ==
    /\ recv.pc # "panic"
    /\ hist.panics = 0


(***************************************************************************)
(* Query and the child's exit.                                             *)
(***************************************************************************)
\* the child wrote a result message to its stdout
ResultWritten ==
    \E o \in DOMAIN proc.wire : proc.wire[o].msg.type = "result"

\* Query returned the error it received on the transport's error channel
QueryFailedOnTransportError ==
    /\ lib.query.pc = "returned"
    /\ lib.query.how = "error"

\* C36: if the child wrote a result message before exiting, Query returns
\* that result in every interleaving of the exit waiter's error with the
\* framer's delivery: an error that becomes readable on the transport's
\* error channel before the result was consumed never makes Query fail.
C36_ResultSurvivesExitError ==
    QueryFailedOnTransportError => ~ResultWritten


(***************************************************************************)
(* The framer and lines that are not JSON.                                 *)
(***************************************************************************)
\* readLoop processed a non-JSON line before the first line of object o
JunkScannedBefore(o) ==
    \E j \in DOMAIN hist.scanned :
        /\ hist.scanned[j].k = "junk"
        /\ 0 < FirstLineAt(o)
        /\ j < FirstLineAt(o)

\* C37: a stdout line that is not JSON and cannot start a JSON object does
\* not block later messages: every complete single-line JSON object the
\* child prints after it is emitted as its own raw message once the framer
\* has processed its line.
C37_JunkLineBlocksNothing ==
    \A o \in DOMAIN proc.wire :
        ( /\ proc.wire[o].n = 1
          /\ JunkScannedBefore(o)
          /\ FullyScanned(o)
          /\ trans.readLoop \in {"scan", "done"} )
        => \E j \in DOMAIN hist.rawLog : hist.rawLog[j] = LinesOf(o)


(***************************************************************************)
(* SpecNested: a connected client with a permission callback; the child    *)
(* sends control requests and answers the control requests it reads; the   *)
(* application calls Interrupt from its own goroutines and from inside     *)
(* the callback.  SpecNestedLive adds the scheduling the runtime gives:    *)
(* the library's goroutines run when they can and a callback returns when  *)
(* the call it made has returned; the child's output and the control       *)
(* timeout may never come.                                                 *)
(***************************************************************************)
\* the control requests the child has read from its stdin
RequestsWritten ==
    {trans.stdin[i].id : i \in {j \in DOMAIN trans.stdin :
        /\ trans.stdin[j].type = "control_request"
        /\ trans.stdin[j].part = "nl"}}

\* the request ids the child has answered
RequestsAnswered ==
    {proc.wire[o].msg.rid : o \in {p \in DOMAIN proc.wire :
        proc.wire[p].msg.type = "control_response"}}

\* the child answers a control request it has read and not answered yet
ChildAnswersRequest ==
    \E rid \in RequestsWritten \ RequestsAnswered :
        ChildEmit([type |-> "control_response", rid |-> rid, sub |-> "success",
                   sid |-> 0])

\* the child asks whether a tool may be used
ChildPermissionRequest ==
    ChildEmit([type |-> "control_request", rid |-> Len(proc.wire) + 1,
               sub |-> "can_use_tool", sid |-> 0])

\* the callback the receive loop is running calls c.Interrupt(ctx): the call
\* runs on the receive loop's goroutine and is recorded under the name x
CallbackInterrupt(x) ==
    /\ recv.pc = "callback"
    /\ recv.inner = ""
    /\ CanCall(x)
    /\ CanRLock
    /\ ~NotConnected(cli, "protocol")
    /\ thr' = Entered(x, "Interrupt", "enroll")
    /\ cli' = [cli EXCEPT !.muR = @ \cup {x}]
    /\ recv' = [recv EXCEPT !.inner = x]
    /\ UNCHANGED <<proc, trans, hand, hist>>

InitNested ==
    InitConnectedWith([NewProtocolHandler EXCEPT
                          !.requestCounter = 1,
                          !.canUseToolCallback = TRUE], <<>>)

\* the steps of the library's goroutines, and of the callback once it can
\* return
NextNestedFair ==
    \/ \E x \in Apps : Enroll(x) /\ UNCHANGED lib
    \/ \E x \in Apps : WriteBegin(x) /\ UNCHANGED lib
    \/ \E x \in Apps : WriteStdin(x) /\ UNCHANGED lib
    \/ \E x \in Apps : CallReply(x) /\ UNCHANGED lib
    \/ ReadLoopScan /\ UNCHANGED lib
    \/ ReadLoopEmit /\ UNCHANGED lib
    \/ RecvTake /\ UNCHANGED lib
    \/ RecvHandle /\ UNCHANGED lib
    \/ RecvCallback /\ UNCHANGED lib
    \/ RecvWriteBegin /\ UNCHANGED lib
    \/ RecvWriteStdin /\ UNCHANGED lib

NextNested ==
    \/ NextNestedFair
    \/ \E x \in Apps : Interrupt(x) /\ UNCHANGED lib
    \/ \E x \in Apps : CallbackInterrupt(x) /\ UNCHANGED lib
    \/ \E x \in Apps : CallTimeout(x) /\ UNCHANGED lib
    \/ ChildPermissionRequest /\ UNCHANGED lib
    \/ ChildAnswersRequest /\ UNCHANGED lib

SpecNested == InitNested /\ [][NextNested]_vars

SpecNestedLive == SpecNested /\ WF_vars(NextNestedFair)

\* goroutine x waits for the response to a request the child has answered
WaitsForAnswered(x) ==
    /\ thr[x].pc = "wait"
    /\ thr[x].id \in RequestsAnswered

\* C38: while an inbound control-request handler (permission, hook or MCP
\* callback) is executing, control responses that arrive for outstanding
\* outbound control requests are still delivered to their waiters: a call,
\* in particular one made by the callback itself, whose request the child
\* has answered gets its reply, whether or not the timeout ever fires.
C38_RepliesDeliveredDuringCallback ==
    \A x \in Apps : WaitsForAnswered(x) ~> (thr[x].pc # "wait")


(***************************************************************************)
(* SpecMcpLive: SpecMcp with the scheduling the runtime gives: a caller    *)
(* that can send or take its reply does, the receive loop runs when it     *)
(* can; the server's messages, a caller's cancellation and the owner's     *)
(* Close may never come.                                                   *)
(***************************************************************************)
NextMcpFair ==
    \/ \E x \in McpCallers : McpSend(x) \/ McpReply(x)
    \/ McpNotify
    \/ McpReceive
    \/ McpLoopReturns

SpecMcpLive == SpecMcp /\ WF_vars(NextMcpFair)

\* caller x is blocked in request with no reply in its slot, and the
\* receive loop has returned: Receive failed or the client was closed
McpOrphaned(x) ==
    /\ lib.mcp.th[x].pc = "wait"
    /\ lib.mcp.th[x].chan = <<>>
    /\ lib.mcp.loop = "done"

\* C39: when the MCP transport's Receive fails or the connection is closed
\* while requests are pending, every caller blocked in a pending request
\* eventually returns, even if its context is never cancelled.
C39_PendingMcpCallersReleased ==
    \A x \in McpCallers : McpOrphaned(x) ~> (lib.mcp.th[x].pc # "wait")


(***************************************************************************)
(* SpecReconnect: Connect called again on a client that has a transport.   *)
(* Connect tests c.closed only, so the call goes through: c.transport and  *)
(* c.protocol are overwritten and a new receive loop is started.  The      *)
(* model follows the new transport, child and receive loop and counts      *)
(* what the call left behind: hist.orphans.children are running children   *)
(* no field of the client refers to any more, hist.orphans.loops receive   *)
(* loops of earlier calls that are still running.                          *)
(***************************************************************************)
\* the receive loop started by the last Connect is still running
LoopRunning == recv.pc \notin {"off", "done", "panic"}

\* what a Connect that overwrites c.transport leaves behind
Orphaned(h) ==
    [h EXCEPT !.children = IF proc.state = "running" THEN @ + 1 ELSE @,
              !.loops = IF LoopRunning THEN @ + 1 ELSE @]

\* Connect on a client whose c.transport is set, up to c.initialize
ConnectAgain(x) ==
    /\ CanCall(x)
    /\ CanLock
    /\ cli.transport
    /\ IF cli.closed
       THEN /\ thr' = Refused(x, "Connect", ErrClientClosed)
            /\ UNCHANGED <<proc, trans, hand, cli, recv, hist>>
       ELSE \E started \in BOOLEAN :
               /\ hist' = [HistEmpty EXCEPT
                              !.closeReturned = hist.closeReturned,
                              !.orphans = Orphaned(hist.orphans)]
               /\ IF started
                  THEN /\ proc' = ProcStarted
                       /\ trans' = TransportConnected
                       /\ hand' = NewProtocolHandler
                       /\ cli' = [cli EXCEPT !.protocol = TRUE, !.muW = x]
                       /\ recv' = [RecvOff EXCEPT !.pc = "select"]
                       /\ thr' = Entered(x, "Connect", "enroll")
                  ELSE \* c.transport.Connect fails: the new, unconnected
                       \* transport stays assigned; the old receive loop
                       \* goes on, on the old handler
                       /\ proc' = ProcNone
                       /\ trans' = NewSubprocessTransport
                       /\ recv' = RecvOff
                       /\ thr' = Refused(x, "Connect",
                                    <<SDKError("connect"),
                                      Sentinel("ErrCLIConnection")>>)
                       /\ UNCHANGED <<hand, cli>>

NextReconnect ==
    \/ \E x \in Apps : Connect(x) /\ UNCHANGED lib
    \/ \E x \in Apps : ConnectAgain(x) /\ UNCHANGED lib
    \/ \E x \in Apps : Enroll(x) /\ UNCHANGED lib
    \/ \E x \in Apps : WriteBegin(x) /\ UNCHANGED lib
    \/ \E x \in Apps : WriteStdin(x) /\ UNCHANGED lib
    \/ \E x \in Apps : CallReply(x) /\ UNCHANGED lib
    \/ \E x \in Apps : CallTimeout(x) /\ UNCHANGED lib
    \/ \E x \in Apps : ConnectLoad(x) /\ UNCHANGED lib
    \/ \E x \in Apps : ConnectCloseTransport(x) /\ UNCHANGED lib
    \/ \E x \in Apps : Close(x) /\ UNCHANGED lib
    \/ \E x \in Apps : CloseTransport(x) /\ UNCHANGED lib
    \/ ChildAnswerInitialize /\ UNCHANGED lib
    \/ ReadLoopScan /\ UNCHANGED lib
    \/ ReadLoopEmit /\ UNCHANGED lib
    \/ RecvTake /\ UNCHANGED lib
    \/ RecvHandle /\ UNCHANGED lib
    \/ RecvReturn /\ UNCHANGED lib

SpecReconnect == InitClient /\ [][NextReconnect]_vars

\* no running child was left behind
NoOrphanChild == hist.orphans.children = 0

\* no running receive loop was left behind
NoOrphanLoop == hist.orphans.loops = 0

\* C40: a client owns at most one live transport and one receive loop at
\* any time: Connect on a client that is already connected spawns no second
\* child and no second receive loop and orphans neither of the existing ones.
C40_OneTransportOneLoop ==
    /\ NoOrphanChild
    /\ NoOrphanLoop

====
